---- MODULE Spec2Model ----
(***************************************************************************)
(* WakeWise: the storage collaborator (StorageService), the pattern        *)
(* analyzer (SleepAnalysisService), the predictor (WakePredictorService)   *)
(* and the alarm scheduler (AlarmService).                                 *)
(*                                                                         *)
(* Time is counted in whole minutes of local time since day 0, 00:00; a    *)
(* JavaScript Date is the integer number of minutes.  Fractions computed   *)
(* by the code in IEEE doubles (probabilities, scores, confidence) are     *)
(* kept as exact rationals <<numerator, denominator>>.                     *)
(***************************************************************************)
EXTENDS Integers, Sequences, FiniteSets, TLC

VARIABLES
    now,            \* the device clock (minutes)
    sessions,       \* AsyncStorage item @wakewise_sleep_sessions (a list)
    ratings,        \* AsyncStorage item @wakewise_feedback (a list)
    settings,       \* AsyncStorage item @wakewise_settings merged over DEFAULT_SETTINGS
    pc,             \* per storage caller: where its pending call stands
    arg,            \* per storage caller: the record its pending call adds
    snap,           \* per storage caller: the list its pending call has read
    lastAdded,      \* history: per date, the session of the last completed addSleepSession
    submitted,      \* history: the ratings of the completed addFeedbackRating calls
    replaced,       \* history: some completed addSleepSession found its date already stored
    ticks,          \* how often the clock has advanced
    apc,            \* analyzePatterns: where the request stands
    asnap,          \* analyzePatterns: the session list it has read
    pattern,        \* analyzePatterns: the value it returned
    stored,         \* history: every value the stored session list has had
    wakeWindow,     \* the WakeWindow handed to generatePrediction
    estimatedBedtime, \* the bedtime handed to generatePrediction
    prediction,     \* the WakePrediction returned by generatePrediction
    spc,            \* scheduleAlarm: where the call stands
    scheduled,      \* the notifications the device scheduler holds
    scheduledAlarmId, \* AlarmService.scheduledAlarmId (0 is null)
    scall,          \* scheduleAlarm: the prediction it was given, the threshold it read
    returned,       \* history: every generatePrediction call made, inputs and value
    stats,          \* the value of the last getStats
    insights,       \* the value of the last getInsights
    adjustments,    \* the value of the last getAlgorithmAdjustments
    tokens,         \* GarminService.tokens (FALSE is null)
    garminTokens,   \* AsyncStorage item @wakewise_garmin_tokens (FALSE is absent)
    wakeWindows,    \* AsyncStorage item @wakewise_wake_windows (a list)
    dpc,            \* disconnect: where the call stands
    dsnap,          \* disconnect: the settings its saveUserSettings has read
    upc,            \* updateSetting: where the call stands
    uarg,           \* updateSetting: the confidence threshold it saves
    usnap,          \* updateSetting: the settings its saveUserSettings has read
    minutesFromSleepStart,  \* getMostLikelyStage: the offset last asked for
    estimate,       \* getMostLikelyStage: the stage and probability it returned
    consistencyResult, \* what calculateConsistency returned (NoScore before)
    isConnected,    \* HomeScreen state isConnected
    activeAlarm,    \* HomeScreen state activeAlarm (NoWindow is null)
    loads,          \* per loadData run: where it stands, its `connected` and `activeWindow`
    handed          \* history: the wake window handleSetAlarm last passed to scheduleAlarm
                    \* and the window its prediction was generated from

storeVars == <<sessions, ratings, settings>>
callVars == <<pc, arg, snap>>
histVars == <<lastAdded, submitted, replaced>>
analysisVars == <<apc, asnap, pattern, stored>>
predictVars == <<wakeWindow, estimatedBedtime, prediction>>
alarmVars == <<spc, scheduled, scheduledAlarmId, scall>>
feedbackVars == <<stats, insights, adjustments>>
garminVars == <<tokens, garminTokens, wakeWindows, dpc, dsnap, upc, uarg, usnap>>
homeVars == <<isConnected, activeAlarm, loads, handed>>
screenVars == <<minutesFromSleepStart, estimate, consistencyResult, homeVars>>
vars == <<now, ticks, storeVars, callVars, histVars, analysisVars, predictVars, alarmVars,
          returned, feedbackVars, garminVars, screenVars>>

(***************************************************************************)
(* Program constants                                                       *)
(***************************************************************************)
MinutesPerDay == 1440
RetentionDays == 90
MIN_DATA_DAYS == 7
AVERAGE_CYCLE_LENGTH == 90
CONFIDENCE_BOOST_PER_DAY == 2
MAX_CONFIDENCE == 95
DefaultConfidenceThreshold == 50

(***************************************************************************)
(* Bounds of the model                                                     *)
(***************************************************************************)
MaxTicks == 1

(***************************************************************************)
(* Dates                                                                   *)
(***************************************************************************)
At(day, hour, minute) == day * MinutesPerDay + hour * 60 + minute
getHours(date) == (date % MinutesPerDay) \div 60
getMinutes(date) == date % 60
DayOf(date) == date \div MinutesPerDay

\* The device clock when the model starts: noon of day 94.
StartTime == At(94, 12, 0)
Today == DayOf(StartTime)

(***************************************************************************)
(* Sleep sessions.  A stage is [type, startTime]; a session keeps the      *)
(* fields the services read.  hasStages = FALSE is a record whose `stages` *)
(* member is missing.                                                      *)
(***************************************************************************)
Stage(type, startTime) == [type |-> type, startTime |-> startTime]

\* The stages of a night that starts at `start`: `layout` is a sequence of
\* <<type, minutes from sleep start>>.
StagesAt(start, layout) ==
    [i \in 1..Len(layout) |-> Stage(layout[i][1], start + layout[i][2])]

\* GarminService.parseSleepData: one night, named by its calendar date.
Session(date, id, bedHour, bedMinute, duration, layout) ==
    LET start == IF bedHour >= 12 THEN At(date - 1, bedHour, bedMinute)
                                  ELSE At(date, bedHour, bedMinute)
    IN  [date |-> date, id |-> id,
         sleepStart |-> start,
         sleepEnd |-> start + duration,
         totalDurationMinutes |-> duration,
         hasStages |-> TRUE,
         stages |-> StagesAt(start, layout)]

\* Stage layouts delivered by the wearable.
LayoutCycle90 == << <<"light", 0>>, <<"deep", 20>>, <<"light", 90>>, <<"rem", 110>>,
                    <<"deep", 125>>, <<"light", 180>>, <<"light", 450>> >>
LayoutCycle75 == << <<"light", 0>>, <<"deep", 30>>, <<"light", 75>>, <<"rem", 100>>,
                    <<"awake", 140>>, <<"light", 440>> >>

NoSession == [date |-> -1]

(***************************************************************************)
(* StorageService                                                          *)
(***************************************************************************)
RECURSIVE SelectSeqBy(_, _)
\* Array.prototype.filter: the elements of `list` whose index is in `keep`.
SelectSeqBy(list, keep) ==
    IF list = <<>> THEN <<>>
    ELSE LET n == Len(list)
             front == SelectSeqBy(SubSeq(list, 1, n - 1), keep)
         IN  IF n \in keep THEN Append(front, list[n]) ELSE front

\* getSleepSessions: the parsed list; a session without `stages` makes
\* `s.stages.map` throw, and the catch returns the empty list.
getSleepSessions(item) ==
    IF \E i \in 1..Len(item) : ~item[i].hasStages THEN <<>> ELSE item

\* getFeedbackRatings: the parsed list.
getFeedbackRatings(item) == item

\* new Date(); setDate(getDate() - 90)
CutoffDate(clock) == clock - RetentionDays * MinutesPerDay

\* findIndex((s) => s.date === session.date): 0 stands for -1.
FindIndexByDate(list, date) ==
    IF \E i \in 1..Len(list) : list[i].date = date
    THEN CHOOSE i \in 1..Len(list) :
            /\ list[i].date = date
            /\ \A j \in 1..(i - 1) : list[j].date # date
    ELSE 0

\* An upsert that lost its findIndex: every session is pushed.
UpsertAlwaysPush(list, session) == Append(list, session)

\* Lines 58-63 of addSleepSession: replace the session of the same date, else push.
Upsert(list, session) ==
    LET existingIndex == FindIndexByDate(list, session.date)
    IN  IF existingIndex > 0
        THEN [list EXCEPT ![existingIndex] = session]
        ELSE Append(list, session)

\* Lines 64-69 of addSleepSession: keep the sessions that ended after the cutoff.
FilterSessions(list, clock) ==
    SelectSeqBy(list, {i \in 1..Len(list) : list[i].sleepEnd > CutoffDate(clock)})

\* Lines 139-143 of addFeedbackRating: keep the ratings of wakes after the cutoff.
FilterRatings(list, clock) ==
    SelectSeqBy(list, {i \in 1..Len(list) : list[i].wakeTime > CutoffDate(clock)})

Range(list) == {list[i] : i \in 1..Len(list)}

\* A retention filter applied to the list as read, before the new record joins it.
AddSleepSessionFilterFirst(list, session, clock) ==
    Upsert(FilterSessions(list, clock), session)

\* addSleepSession, lines 57-70, on the list it has read: the list it saves.
AddSleepSessionList(list, session, clock) ==
    FilterSessions(Upsert(list, session), clock)

\* addFeedbackRating, lines 137-147, on the list it has read: the list it saves.
AddFeedbackRatingList(list, rating, clock) ==
    FilterRatings(Append(list, rating), clock)

(***************************************************************************)
(* Arithmetic.  A rational is <<numerator, denominator>>, denominator > 0.  *)
(***************************************************************************)
\* Math.round of n/d, d > 0: the nearest integer, a half rounded up.
Round(n, d) == (2 * n + d) \div (2 * d)

Min(a, b) == IF a <= b THEN a ELSE b
Max(a, b) == IF a >= b THEN a ELSE b
Abs(a) == IF a >= 0 THEN a ELSE -a

\* The JavaScript remainder a % b, b > 0: it has the sign of a.
JsRem(a, b) == IF a >= 0 THEN a % b ELSE -((-a) % b)

\* p < q, p > q for rationals.
RatLess(p, q) == p[1] * q[2] < q[1] * p[2]

RECURSIVE SqrtSearch(_, _, _)
\* The largest r in lo..hi with r * r <= n.
SqrtSearch(n, lo, hi) ==
    IF lo >= hi THEN lo
    ELSE LET mid == (lo + hi + 1) \div 2
         IN  IF mid * mid <= n THEN SqrtSearch(n, mid, hi)
                               ELSE SqrtSearch(n, lo, mid - 1)

\* Math.sqrt of a natural number, rounded down to a whole number.
ISqrt(n) == SqrtSearch(n, 0, Min(n, 46340))

\* Math.sqrt is kept to 1/SqrtScale of a unit.
SqrtScale == 100

RECURSIVE SumSeq(_)
\* values.reduce((a, b) => a + b, 0)
SumSeq(values) ==
    IF values = <<>> THEN 0
    ELSE values[Len(values)] + SumSeq(SubSeq(values, 1, Len(values) - 1))

RECURSIVE Insert(_, _)
Insert(sorted, v) ==
    IF sorted = <<>> THEN <<v>>
    ELSE IF v < sorted[1] THEN <<v>> \o sorted
    ELSE <<sorted[1]>> \o Insert(Tail(sorted), v)

RECURSIVE SortAscending(_)
\* values.sort((a, b) => a - b)
SortAscending(values) ==
    IF values = <<>> THEN <<>>
    ELSE Insert(SortAscending(SubSeq(values, 1, Len(values) - 1)), values[Len(values)])

(***************************************************************************)
(* SleepAnalysisService                                                    *)
(***************************************************************************)
\* calculateAverageDuration
calculateAverageDuration(list) ==
    Round(SumSeq([i \in 1..Len(list) |-> list[i].totalDurationMinutes]), Len(list))

NoDate == -1

RECURSIVE WalkStages(_, _, _, _)
\* The inner loop of detectCycleLength over the stages from index i on:
\* the cycle lengths it pushes.  cycleStart = NoDate is null.
WalkStages(stages, i, cycleStart, inDeepSleep) ==
    IF i > Len(stages) THEN <<>>
    ELSE LET stage == stages[i]
         IN  IF stage.type = "light" /\ ~inDeepSleep /\ cycleStart = NoDate
             THEN WalkStages(stages, i + 1, stage.startTime, inDeepSleep)
             ELSE IF stage.type = "deep"
             THEN WalkStages(stages, i + 1, cycleStart, TRUE)
             ELSE IF stage.type = "light" /\ inDeepSleep /\ cycleStart # NoDate
             THEN LET cycleLength == stage.startTime - cycleStart
                      pushed == IF cycleLength >= 60 /\ cycleLength <= 120
                                THEN <<cycleLength>> ELSE <<>>
                  IN  pushed \o WalkStages(stages, i + 1, stage.startTime, FALSE)
             ELSE WalkStages(stages, i + 1, cycleStart, inDeepSleep)

RECURSIVE CycleLengths(_)
\* The outer loop of detectCycleLength: the candidates of all sessions.
CycleLengths(list) ==
    IF list = <<>> THEN <<>>
    ELSE LET session == list[1]
             own == IF ~session.hasStages \/ Len(session.stages) < 4 THEN <<>>
                    ELSE WalkStages(session.stages, 1, NoDate, FALSE)
         IN  own \o CycleLengths(Tail(list))

\* A detectCycleLength that counts only the lengths strictly between 60 and 120.
DetectCycleLengthExclusive(list) ==
    LET cycleLengths ==
            SortAscending(SelectSeq(CycleLengths(list), LAMBDA c : c > 60 /\ c < 120))
        mid == Len(cycleLengths) \div 2
    IN  IF Len(cycleLengths) = 0 THEN AVERAGE_CYCLE_LENGTH
        ELSE Round(cycleLengths[mid + 1], 1)

\* A detectCycleLength without the fallback to the average cycle length.
DetectCycleLengthNoFallback(list) ==
    LET cycleLengths == SortAscending(CycleLengths(list))
        mid == Len(cycleLengths) \div 2
    IN  IF Len(cycleLengths) = 0 THEN 0
        ELSE Round(cycleLengths[mid + 1], 1)

\* detectCycleLength
detectCycleLength(list) ==
    LET cycleLengths == SortAscending(CycleLengths(list))
        mid == Len(cycleLengths) \div 2
    IN  IF Len(cycleLengths) = 0 THEN AVERAGE_CYCLE_LENGTH
        ELSE Round(cycleLengths[mid + 1], 1)

bucketSizeMinutes == 15
maxMinutes == 600
NumBuckets == (maxMinutes + bucketSizeMinutes - 1) \div bucketSizeMinutes

\* The stages findLightSleepWindows counts: <<minutes from sleep start, type>> of
\* every stage of every session that has stages.
StageOffsets(list) ==
    UNION { { <<i, j>> : j \in { k \in 1..Len(list[i].stages) :
                /\ list[i].hasStages
                /\ list[i].stages[k].startTime - list[i].sleepStart >= 0
                /\ list[i].stages[k].startTime - list[i].sleepStart < maxMinutes } }
            : i \in 1..Len(list) }

\* totalBuckets and lightSleepBuckets of findLightSleepWindows (bucket 0 first).
Buckets(list, lightOnly) ==
    LET counted == StageOffsets(list)
    IN  [b \in 0..(NumBuckets - 1) |->
            Cardinality({ ij \in counted :
                LET s == list[ij[1]]
                    stage == s.stages[ij[2]]
                IN  /\ (stage.startTime - s.sleepStart) \div bucketSizeMinutes = b
                    /\ (lightOnly => stage.type = "light") })]

SumBuckets(buckets, from, to) ==
    SumSeq([k \in 1..(to - from) |-> buckets[from + k - 1]])

TimeWindow(start, end, probability) ==
    [startMinutesFromSleep |-> start, endMinutesFromSleep |-> end,
     probability |-> probability]

RECURSIVE ScanBuckets(_, _, _, _)
\* The second loop of findLightSleepWindows from bucket i on; windowStart =
\* NoDate is null.  A bucket's probability light/total >= 0.4 is 5 * light >=
\* 2 * total; the probability of a closed window divides by the totals summed
\* from 1 (the initial value of the reduce).
ScanBuckets(light, total, i, windowStart) ==
    IF i >= NumBuckets
    THEN IF windowStart # NoDate
         THEN <<TimeWindow(windowStart, maxMinutes, <<1, 2>>)>>
         ELSE <<>>
    ELSE LET high == total[i] > 0 /\ 5 * light[i] >= 2 * total[i]
         IN  IF high
             THEN ScanBuckets(light, total, i + 1,
                              IF windowStart = NoDate THEN i * bucketSizeMinutes
                                                      ELSE windowStart)
             ELSE IF windowStart # NoDate
             THEN LET from == windowStart \div bucketSizeMinutes
                  IN  <<TimeWindow(windowStart, i * bucketSizeMinutes,
                                   <<SumBuckets(light, from, i),
                                     SumBuckets(total, from, i) + 1>>)>>
                      \o ScanBuckets(light, total, i + 1, NoDate)
             ELSE ScanBuckets(light, total, i + 1, NoDate)

\* findLightSleepWindows
findLightSleepWindows(list) ==
    ScanBuckets(Buckets(list, TRUE), Buckets(list, FALSE), 0, NoDate)

\* getMinuteOfDay (both services): minutes of the day, the hours before 4am
\* counted past midnight.
getMinuteOfDay(date) ==
    LET minuteOfDay == getHours(date) * 60 + getMinutes(date)
    IN  IF getHours(date) < 4 THEN minuteOfDay + 24 * 60 ELSE minuteOfDay

\* calculateVariation: the standard deviation sqrt(n * sum(v^2) - sum(v)^2) / n,
\* as the rational <<numerator, denominator>> with the root kept to 1/SqrtScale.
calculateVariation(values) ==
    LET n == Len(values)
        sum == SumSeq(values)
        squares == SumSeq([i \in 1..n |-> values[i] * values[i]])
    IN  <<ISqrt((n * squares - sum * sum) * SqrtScale * SqrtScale), n * SqrtScale>>

maxAcceptableVariation == 60

\* Math.max(0, 100 - (variation / maxAcceptableVariation) * 50), as the
\* numerator over the denominator maxAcceptableVariation * variation[2].
ScoreNumerator(variation) ==
    Max(0, 100 * maxAcceptableVariation * variation[2] - 50 * variation[1])

\* A calculateConsistency that scores a history of two nights.
CalculateConsistencyFromTwo(list) ==
    IF Len(list) < 2 THEN 0
    ELSE LET n == Len(list)
             durations == [i \in 1..n |-> list[i].totalDurationMinutes]
             bedtimes == [i \in 1..n |-> getMinuteOfDay(list[i].sleepStart)]
             waketimes == [i \in 1..n |-> getMinuteOfDay(list[i].sleepEnd)]
             durationScore == ScoreNumerator(calculateVariation(durations))
             bedtimeScore == ScoreNumerator(calculateVariation(bedtimes))
             waketimeScore == ScoreNumerator(calculateVariation(waketimes))
         IN  Round(durationScore + bedtimeScore + waketimeScore,
                   3 * maxAcceptableVariation * n * SqrtScale)

\* calculateConsistency
calculateConsistency(list) ==
    IF Len(list) < 3 THEN 0
    ELSE LET n == Len(list)
             durations == [i \in 1..n |-> list[i].totalDurationMinutes]
             bedtimes == [i \in 1..n |-> getMinuteOfDay(list[i].sleepStart)]
             waketimes == [i \in 1..n |-> getMinuteOfDay(list[i].sleepEnd)]
             durationScore == ScoreNumerator(calculateVariation(durations))
             bedtimeScore == ScoreNumerator(calculateVariation(bedtimes))
             waketimeScore == ScoreNumerator(calculateVariation(waketimes))
         IN  Round(durationScore + bedtimeScore + waketimeScore,
                   3 * maxAcceptableVariation * n * SqrtScale)

\* An analyzePatterns whose threshold is one too low.
AnalyzePatternsOfSix(list) ==
    IF Len(list) < MIN_DATA_DAYS - 1 THEN [dataPoints |-> -1]
    ELSE [averageSleepDuration |-> calculateAverageDuration(list),
          averageCycleLength |-> detectCycleLength(list),
          typicalLightSleepWindows |-> findLightSleepWindows(list),
          consistency |-> calculateConsistency(list),
          dataPoints |-> Len(list)]

\* analyzePatterns, lines 15-37, on the sessions it has read; [dataPoints |-> -1]
\* is null.
AnalyzePatternsOf(list) ==
    IF Len(list) < MIN_DATA_DAYS THEN [dataPoints |-> -1]
    ELSE [averageSleepDuration |-> calculateAverageDuration(list),
          averageCycleLength |-> detectCycleLength(list),
          typicalLightSleepWindows |-> findLightSleepWindows(list),
          consistency |-> calculateConsistency(list),
          dataPoints |-> Len(list)]

RECURSIVE FirstWindow(_, _, _)
\* The loop of getMostLikelyStage over the windows from index i on: the index of
\* the first window that holds the offset, 0 if none does.
FirstWindow(windows, i, offset) ==
    IF i > Len(windows) THEN 0
    ELSE IF /\ offset >= windows[i].startMinutesFromSleep
            /\ offset <= windows[i].endMinutesFromSleep
    THEN i
    ELSE FirstWindow(windows, i + 1, offset)

\* A getMostLikelyStage whose position in the cycle is never negative.
GetMostLikelyStageFloored(offset, pat) ==
    LET w == FirstWindow(pat.typicalLightSleepWindows, 1, offset)
        cycleLength == pat.averageCycleLength
        positionInCycle == offset % cycleLength
    IN  IF w > 0
        THEN [stage |-> "light",
              probability |-> pat.typicalLightSleepWindows[w].probability]
        ELSE IF 5 * positionInCycle < cycleLength
        THEN [stage |-> "light", probability |-> <<6, 10>>]
        ELSE IF 2 * positionInCycle < cycleLength
        THEN [stage |-> "deep", probability |-> <<5, 10>>]
        ELSE IF 4 * positionInCycle < 3 * cycleLength
        THEN [stage |-> "light", probability |-> <<5, 10>>]
        ELSE [stage |-> "rem", probability |-> <<5, 10>>]

\* getMostLikelyStage
getMostLikelyStage(offset, pat) ==
    LET w == FirstWindow(pat.typicalLightSleepWindows, 1, offset)
        cycleLength == pat.averageCycleLength
        positionInCycle == JsRem(offset, cycleLength)
    IN  IF w > 0
        THEN [stage |-> "light",
              probability |-> pat.typicalLightSleepWindows[w].probability]
        ELSE IF 5 * positionInCycle < cycleLength
        THEN [stage |-> "light", probability |-> <<6, 10>>]
        ELSE IF 2 * positionInCycle < cycleLength
        THEN [stage |-> "deep", probability |-> <<5, 10>>]
        ELSE IF 4 * positionInCycle < 3 * cycleLength
        THEN [stage |-> "light", probability |-> <<5, 10>>]
        ELSE [stage |-> "rem", probability |-> <<5, 10>>]

(***************************************************************************)
(* WakePredictorService.  A time of day "HH:MM" is <<hours, minutes>>.      *)
(***************************************************************************)
\* A parseWakeTime that moves to the next day from noon on.
ParseWakeTimeFromNoon(timeStr, referenceDate) ==
    LET day == IF getHours(referenceDate) >= 12 THEN DayOf(referenceDate) + 1
                                                ELSE DayOf(referenceDate)
    IN  At(day, timeStr[1], timeStr[2])

\* parseWakeTime: the time of day on the reference date's day, or on the next
\* day when the reference date's hour is 18 or later.
parseWakeTime(timeStr, referenceDate) ==
    LET day == IF getHours(referenceDate) >= 18 THEN DayOf(referenceDate) + 1
                                                ELSE DayOf(referenceDate)
    IN  At(day, timeStr[1], timeStr[2])

checkInterval == 5

\* A candidate score that weighs deep sleep like REM.
CandidateScoreDeepAsRem(stage, probability, windowDuration, offset) ==
    LET weight == CASE stage = "light" -> 100
                    [] stage = "rem" -> 70
                    [] stage = "awake" -> 60
                    [] stage = "deep" -> 70
    IN  <<weight * probability[1] * windowDuration
             + 10 * (windowDuration - offset) * probability[2],
          probability[2] * windowDuration>>

\* The score of findOptimalWakeTime, lines 661-678, for windowDuration > 0:
\* weight * probability + (windowDuration - offset) / windowDuration * 10.
CandidateScore(stage, probability, windowDuration, offset) ==
    LET weight == CASE stage = "light" -> 100
                    [] stage = "rem" -> 70
                    [] stage = "awake" -> 60
                    [] stage = "deep" -> 20
    IN  <<weight * probability[1] * windowDuration
             + 10 * (windowDuration - offset) * probability[2],
          probability[2] * windowDuration>>

RECURSIVE ScanCandidates(_, _, _, _, _, _)
\* The loop of findOptimalWakeTime from `offset` on; best = [time, score, stage].
\* With windowDuration = 0 the score is NaN and `score > bestScore` is false.
ScanCandidates(earliestWake, windowDuration, bedtime, pat, offset, best) ==
    IF offset > windowDuration THEN best
    ELSE LET candidateTime == earliestWake + offset
             minutesFromSleep == candidateTime - bedtime
             likely == getMostLikelyStage(minutesFromSleep, pat)
             better ==
                 /\ windowDuration # 0
                 /\ RatLess(best.score,
                            CandidateScore(likely.stage, likely.probability,
                                           windowDuration, offset))
         IN  ScanCandidates(earliestWake, windowDuration, bedtime, pat,
                            offset + checkInterval,
                            IF better
                            THEN [time |-> candidateTime,
                                  score |-> CandidateScore(likely.stage, likely.probability,
                                                           windowDuration, offset),
                                  stage |-> likely.stage]
                            ELSE best)

RECURSIVE ScanCandidatesLatest(_, _, _, _, _, _)
\* The loop with `score >= bestScore`: the last candidate of a score wins.
ScanCandidatesLatest(earliestWake, windowDuration, bedtime, pat, offset, best) ==
    IF offset > windowDuration THEN best
    ELSE LET candidateTime == earliestWake + offset
             minutesFromSleep == candidateTime - bedtime
             likely == getMostLikelyStage(minutesFromSleep, pat)
             better ==
                 /\ windowDuration # 0
                 /\ ~RatLess(CandidateScore(likely.stage, likely.probability,
                                            windowDuration, offset),
                             best.score)
         IN  ScanCandidatesLatest(earliestWake, windowDuration, bedtime, pat,
                                  offset + checkInterval,
                                  IF better
                                  THEN [time |-> candidateTime,
                                        score |-> CandidateScore(likely.stage,
                                                                 likely.probability,
                                                                 windowDuration, offset),
                                        stage |-> likely.stage]
                                  ELSE best)

\* A findOptimalWakeTime that lets a later candidate of equal score win.
FindOptimalWakeTimeLatestBest(earliestWake, latestWake, bedtime, pat) ==
    LET windowDuration == latestWake - earliestWake
        best == ScanCandidatesLatest(earliestWake, windowDuration, bedtime, pat, 0,
                                     [time |-> latestWake, score |-> <<0, 1>>,
                                      stage |-> "light"])
    IN  [optimalTime |-> best.time,
         stage |-> best.stage,
         baseConfidence |-> Min(MAX_CONFIDENCE, Round(4 * best.score[1], 5 * best.score[2]))]

\* A findOptimalWakeTime that counts its candidates from the bedtime.
FindOptimalWakeTimeFromBedtime(earliestWake, latestWake, bedtime, pat) ==
    LET windowDuration == latestWake - earliestWake
        best == ScanCandidates(bedtime, windowDuration, bedtime, pat, 0,
                               [time |-> latestWake, score |-> <<0, 1>>, stage |-> "light"])
    IN  [optimalTime |-> best.time,
         stage |-> best.stage,
         baseConfidence |-> Min(MAX_CONFIDENCE, Round(4 * best.score[1], 5 * best.score[2]))]

\* findOptimalWakeTime
findOptimalWakeTime(earliestWake, latestWake, bedtime, pat) ==
    LET windowDuration == latestWake - earliestWake
        best == ScanCandidates(earliestWake, windowDuration, bedtime, pat, 0,
                               [time |-> latestWake, score |-> <<0, 1>>, stage |-> "light"])
    IN  [optimalTime |-> best.time,
         stage |-> best.stage,
         baseConfidence |-> Min(MAX_CONFIDENCE, Round(4 * best.score[1], 5 * best.score[2]))]

\* getTypicalBedtimeMinute: 11pm.
getTypicalBedtimeMinute(pat) == 23 * 60

\* feedback.slice(-14)
RecentFeedback(feedback) ==
    SubSeq(feedback, Max(1, Len(feedback) - 13), Len(feedback))

\* A feedback step that averages every stored rating.
FeedbackAdjustmentOverAll(feedback) ==
    IF Len(feedback) > 0
    THEN LET total == SumSeq([i \in 1..Len(feedback) |-> feedback[i].immediateFeeling])
         IN  IF total >= 4 * Len(feedback) THEN 10
             ELSE IF total <= 2 * Len(feedback) THEN -10
             ELSE 0
    ELSE 0

\* The feedback step of adjustConfidence, lines 725-736.
FeedbackAdjustment(feedback) ==
    IF Len(feedback) > 0
    THEN LET recentFeedback == RecentFeedback(feedback)
             total == SumSeq([i \in 1..Len(recentFeedback) |->
                                 recentFeedback[i].immediateFeeling])
         IN  IF total >= 4 * Len(recentFeedback) THEN 10
             ELSE IF total <= 2 * Len(recentFeedback) THEN -10
             ELSE 0
    ELSE 0

\* An adjustConfidence sum whose bedtime penalty has no upper limit.
ConfidenceTwentiethsUncapped(baseConfidence, pat, feedback, bedtime) ==
    LET dataBoost == Min(20, (pat.dataPoints - MIN_DATA_DAYS) * CONFIDENCE_BOOST_PER_DAY)
        bedtimeDiff == Abs(getMinuteOfDay(bedtime) - getTypicalBedtimeMinute(pat))
        penalty == IF bedtimeDiff > 60 THEN 10 * (bedtimeDiff - 60) ELSE 0
    IN  20 * baseConfidence + 20 * dataBoost + 3 * pat.consistency - penalty
            + 20 * FeedbackAdjustment(feedback)

\* The confidence of adjustConfidence before it is rounded and clamped, in
\* twentieths: (consistency / 100) * 15 is 3 * consistency twentieths, and
\* Math.min(30, (bedtimeDiff - 60) / 2) is Min(600, 10 * (bedtimeDiff - 60)).
ConfidenceTwentieths(baseConfidence, pat, feedback, bedtime) ==
    LET dataBoost == Min(20, (pat.dataPoints - MIN_DATA_DAYS) * CONFIDENCE_BOOST_PER_DAY)
        bedtimeDiff == Abs(getMinuteOfDay(bedtime) - getTypicalBedtimeMinute(pat))
        penalty == IF bedtimeDiff > 60 THEN Min(600, 10 * (bedtimeDiff - 60)) ELSE 0
    IN  20 * baseConfidence + 20 * dataBoost + 3 * pat.consistency - penalty
            + 20 * FeedbackAdjustment(feedback)

\* An adjustConfidence that rounds and forgets to clamp.
AdjustConfidenceUnclamped(baseConfidence, pat, feedback, bedtime) ==
    Round(ConfidenceTwentieths(baseConfidence, pat, feedback, bedtime), 20)

\* adjustConfidence
adjustConfidence(baseConfidence, pat, feedback, bedtime) ==
    Max(0, Min(MAX_CONFIDENCE,
               Round(ConfidenceTwentieths(baseConfidence, pat, feedback, bedtime), 20)))

\* A generateReasoning that looks at the deadline before the confidence.
GenerateReasoningDeadlineFirst(optimalTime, hardWakeTime, stage, confidence, pat) ==
    LET timeDiff == hardWakeTime - optimalTime
    IN  IF timeDiff = 0 THEN "Your hard wake time aligns well"
        ELSE IF confidence < 30 THEN "Limited data"
        ELSE IF confidence >= 70 THEN "Based on nights of data"
        ELSE "Confidence is moderate"

\* generateReasoning: which of its four texts it returns.
generateReasoning(optimalTime, hardWakeTime, stage, confidence, pat) ==
    LET timeDiff == hardWakeTime - optimalTime
    IN  IF confidence < 30 THEN "Limited data"
        ELSE IF timeDiff = 0 THEN "Your hard wake time aligns well"
        ELSE IF confidence >= 70 THEN "Based on nights of data"
        ELSE "Confidence is moderate"

\* wakeWindow.earliestWakeTime ? parseWakeTime(...) : hardWakeTime - windowDurationMinutes
EarliestWake(window, bedtime) ==
    IF window.hasEarliestWakeTime
    THEN parseWakeTime(window.earliestWakeTime, bedtime)
    ELSE parseWakeTime(window.hardWakeTime, bedtime) - window.windowDurationMinutes

\* A generatePrediction whose fallback answers the start of the window.
GeneratePredictionFromEarliest(pat, feedback, window, bedtime) ==
    LET hardWakeTime == parseWakeTime(window.hardWakeTime, bedtime)
        earliestWake == EarliestWake(window, bedtime)
        found == findOptimalWakeTime(earliestWake, hardWakeTime, bedtime, pat)
        adjustedConfidence == adjustConfidence(found.baseConfidence, pat, feedback, bedtime)
    IN  IF pat.dataPoints = -1
        THEN [predictedWakeTime |-> earliestWake,
              confidence |-> 0,
              reasoning |-> "Not enough sleep data yet",
              fallbackTime |-> hardWakeTime,
              predictedStage |-> "light"]
        ELSE [predictedWakeTime |-> found.optimalTime,
              confidence |-> adjustedConfidence,
              reasoning |-> generateReasoning(found.optimalTime, hardWakeTime, found.stage,
                                              adjustedConfidence, pat),
              fallbackTime |-> hardWakeTime,
              predictedStage |-> found.stage]

\* generatePrediction, lines 571-621, on the pattern and the feedback it has read.
GeneratePredictionOf(pat, feedback, window, bedtime) ==
    LET hardWakeTime == parseWakeTime(window.hardWakeTime, bedtime)
        earliestWake == EarliestWake(window, bedtime)
        found == findOptimalWakeTime(earliestWake, hardWakeTime, bedtime, pat)
        adjustedConfidence == adjustConfidence(found.baseConfidence, pat, feedback, bedtime)
    IN  IF pat.dataPoints = -1
        THEN [predictedWakeTime |-> hardWakeTime,
              confidence |-> 0,
              reasoning |-> "Not enough sleep data yet",
              fallbackTime |-> hardWakeTime,
              predictedStage |-> "light"]
        ELSE [predictedWakeTime |-> found.optimalTime,
              confidence |-> adjustedConfidence,
              reasoning |-> generateReasoning(found.optimalTime, hardWakeTime, found.stage,
                                              adjustedConfidence, pat),
              fallbackTime |-> hardWakeTime,
              predictedStage |-> found.stage]

\* A WakeWindow as AlarmSetupScreen.handleSave stores it.
WakeWindow(id, hardWakeTime, windowDurationMinutes, hasEarliest, earliestWakeTime) ==
    [id |-> id, hardWakeTime |-> hardWakeTime,
     windowDurationMinutes |-> windowDurationMinutes,
     hasEarliestWakeTime |-> hasEarliest, earliestWakeTime |-> earliestWakeTime]

(***************************************************************************)
(* The records the callers add                                             *)
(***************************************************************************)
\* Nights the wearable sync delivers: one that expires when the clock advances
\* a day, and last night in two versions (a re-sync of the same date).
SessionPool ==
    { Session(Today - RetentionDays + 1, 1, 23, 0, 480, LayoutCycle90),
      Session(Today, 2, 23, 0, 480, LayoutCycle90),
      Session(Today, 3, 23, 30, 450, LayoutCycle75) }

PoolDates == {s.date : s \in SessionPool}

\* FeedbackEngine.submitRating: the rating of one wake.
Rating(id, wakeTime, immediateFeeling, usedPrediction) ==
    [id |-> id, wakeTime |-> wakeTime, immediateFeeling |-> immediateFeeling,
     usedPrediction |-> usedPrediction]

\* One wake that leaves the 90 days when the clock advances a day, one of today.
RatingPool ==
    { Rating(1, At(Today - RetentionDays + 1, 7, 0), 3, FALSE),
      Rating(2, At(Today, 6, 45), 5, TRUE) }

\* The call sites that add records: HomeScreen.onRefresh and
\* GarminConnectScreen (syncRecentSleepData), FeedbackScreen (submitRating).
Callers == {"c1", "c2"}

(***************************************************************************)
(* addSleepSession and addFeedbackRating, one action per run of the event  *)
(* loop: the call up to its first await (the read of the item), and the    *)
(* continuation (modify, filter, write the item).                          *)
(***************************************************************************)
\* addSleepSession, line 56: const sessions = await this.getSleepSessions()
AddSleepSessionRead(c, session) ==
    /\ pc[c] = "idle"
    /\ pc' = [pc EXCEPT ![c] = "addSleepSession"]
    /\ arg' = [arg EXCEPT ![c] = session]
    /\ snap' = [snap EXCEPT ![c] = getSleepSessions(sessions)]
    /\ UNCHANGED <<now, ticks, storeVars, histVars>>

\* addSleepSession, lines 57-70: upsert, drop what is older than 90 days, save.
AddSleepSessionWrite(c) ==
    /\ pc[c] = "addSleepSession"
    /\ sessions' = AddSleepSessionList(snap[c], arg[c], now)
    /\ pc' = [pc EXCEPT ![c] = "idle"]
    /\ arg' = [arg EXCEPT ![c] = NoSession]
    /\ snap' = [snap EXCEPT ![c] = <<>>]
    /\ lastAdded' = [lastAdded EXCEPT ![arg[c].date] = arg[c]]
    /\ replaced' = (replaced \/ FindIndexByDate(snap[c], arg[c].date) > 0)
    /\ UNCHANGED <<now, ticks, ratings, settings, submitted>>

\* addFeedbackRating, line 136: const ratings = await this.getFeedbackRatings()
AddFeedbackRatingRead(c, rating) ==
    /\ pc[c] = "idle"
    /\ rating \notin submitted
    /\ \A d \in Callers : arg[d] # rating
    /\ pc' = [pc EXCEPT ![c] = "addFeedbackRating"]
    /\ arg' = [arg EXCEPT ![c] = rating]
    /\ snap' = [snap EXCEPT ![c] = getFeedbackRatings(ratings)]
    /\ UNCHANGED <<now, ticks, storeVars, histVars>>

\* addFeedbackRating, lines 137-147: push, drop what is older than 90 days, save.
AddFeedbackRatingWrite(c) ==
    /\ pc[c] = "addFeedbackRating"
    /\ ratings' = AddFeedbackRatingList(snap[c], arg[c], now)
    /\ pc' = [pc EXCEPT ![c] = "idle"]
    /\ arg' = [arg EXCEPT ![c] = NoSession]
    /\ snap' = [snap EXCEPT ![c] = <<>>]
    /\ submitted' = submitted \cup {arg[c]}
    /\ UNCHANGED <<now, ticks, sessions, settings, lastAdded, replaced>>

\* The device clock advances by a day.
Tick ==
    /\ ticks < MaxTicks
    /\ now' = now + MinutesPerDay
    /\ ticks' = ticks + 1
    /\ UNCHANGED <<storeVars, callVars, histVars>>

(***************************************************************************)
(* analyzePatterns as the requests of the screens run it: the call up to   *)
(* its only await (the read of the stored sessions), and the continuation  *)
(* (everything else, synchronous).                                         *)
(***************************************************************************)
\* The requests that may be pending at once: HomeScreen.loadData on focus and
\* on pull-to-refresh.
Requesters == {"focus", "refresh"}

\* analyzePatterns, line 13: const sessions = await storageService.getSleepSessions()
AnalyzePatternsRead(r) ==
    /\ apc[r] # "reading"
    /\ apc' = [apc EXCEPT ![r] = "reading"]
    /\ asnap' = [asnap EXCEPT ![r] = getSleepSessions(sessions)]
    /\ UNCHANGED <<pattern, stored>>

\* A continuation that takes the count from the item as it is stored by now.
AnalyzePatternsRereads(r) ==
    /\ apc[r] = "reading"
    /\ apc' = [apc EXCEPT ![r] = "done"]
    /\ pattern' = [pattern EXCEPT ![r] =
            IF AnalyzePatternsOf(asnap[r]).dataPoints = -1
            THEN AnalyzePatternsOf(asnap[r])
            ELSE [AnalyzePatternsOf(asnap[r]) EXCEPT !.dataPoints = Len(sessions)]]
    /\ UNCHANGED <<asnap, stored>>

\* analyzePatterns, lines 15-37: the value the request returns.
AnalyzePatternsReturn(r) ==
    /\ apc[r] = "reading"
    /\ apc' = [apc EXCEPT ![r] = "done"]
    /\ pattern' = [pattern EXCEPT ![r] = AnalyzePatternsOf(asnap[r])]
    /\ UNCHANGED <<asnap, stored>>

\* null, as a pattern, a wake window and a prediction.
NoPattern == [dataPoints |-> -1]
NoWindow == [id |-> -1]
NoPrediction == [confidence |-> -1]
NoStats == [totalRatings |-> -1]
NoAdjustments == [confidenceMultiplier |-> <<0, 1>>]
NoInsights == <<"not asked">>
NoScore == -1

(***************************************************************************)
(* FeedbackEngine.  A rating is a record with date (a day number),         *)
(* immediateFeeling, usedPrediction and alertnessAfter30Min (0 is          *)
(* undefined).  Means are exact rationals <<numerator, denominator>>.      *)
(***************************************************************************)
\* createFeedbackEntry and submitRating: the rating that is stored.
FeedbackRating(id, date, immediateFeeling, usedPrediction, alertnessAfter30Min) ==
    [id |-> id, date |-> date, wakeTime |-> At(date, 7, 0),
     immediateFeeling |-> immediateFeeling, usedPrediction |-> usedPrediction,
     alertnessAfter30Min |-> alertnessAfter30Min]

\* reduce((sum, r) => sum + r.immediateFeeling, 0)
SumFeeling(list) == SumSeq([i \in 1..Len(list) |-> list[i].immediateFeeling])

\* [...ratings].sort((a, b) => date a - date b): ascending and stable, so a
\* rating comes after those of an earlier date and those of its own date
\* that were stored before it.
SortByDate(list) ==
    LET before(i) == {j \in 1..Len(list) :
                          \/ list[j].date < list[i].date
                          \/ list[j].date = list[i].date /\ j < i}
        place == [i \in 1..Len(list) |-> Cardinality(before(i)) + 1]
    IN  [k \in 1..Len(list) |-> list[CHOOSE i \in 1..Len(list) : place[i] = k]]

\* A calculateTrend that subtracts the second half from the first.
CalculateTrendReversed(list) ==
    IF Len(list) < 6 THEN 0
    ELSE LET sorted == SortByDate(list)
             midpoint == Len(sorted) \div 2
             firstHalf == SubSeq(sorted, 1, midpoint)
             secondHalf == SubSeq(sorted, midpoint + 1, Len(sorted))
         IN  Round(20 * (SumFeeling(firstHalf) * Len(secondHalf)
                           - SumFeeling(secondHalf) * Len(firstHalf)),
                   Len(firstHalf) * Len(secondHalf))

\* calculateTrend: Math.round((secondAvg - firstAvg) * 20)
calculateTrend(list) ==
    IF Len(list) < 6 THEN 0
    ELSE LET sorted == SortByDate(list)
             midpoint == Len(sorted) \div 2
             firstHalf == SubSeq(sorted, 1, midpoint)
             secondHalf == SubSeq(sorted, midpoint + 1, Len(sorted))
         IN  Round(20 * (SumFeeling(secondHalf) * Len(firstHalf)
                           - SumFeeling(firstHalf) * Len(secondHalf)),
                   Len(firstHalf) * Len(secondHalf))

\* averageAlertness of getStats, lines 68-73 and 91: null is <<0, 0>>.
AverageAlertness(list) ==
    LET alertnessRatings == SelectSeq(list, LAMBDA r : r.alertnessAfter30Min # 0)
        total == SumSeq([i \in 1..Len(alertnessRatings) |->
                            alertnessRatings[i].alertnessAfter30Min])
    IN  IF Len(alertnessRatings) > 0 /\ total # 0
        THEN <<Round(10 * total, Len(alertnessRatings)), 10>>
        ELSE <<0, 0>>

\* A getStats that takes the accuracy over all ratings.
GetStatsOverAll(list) ==
    IF Len(list) = 0
    THEN [totalRatings |-> 0, averageFeeling |-> <<0, 10>>, averageAlertness |-> <<0, 0>>,
          predictionAccuracy |-> 0, improvementTrend |-> 0]
    ELSE LET goodRatings == SelectSeq(list, LAMBDA r : r.immediateFeeling >= 4)
         IN  [totalRatings |-> Len(list),
              averageFeeling |-> <<Round(10 * SumFeeling(list), Len(list)), 10>>,
              averageAlertness |-> AverageAlertness(list),
              predictionAccuracy |-> Round(100 * Len(goodRatings), Len(list)),
              improvementTrend |-> calculateTrend(list)]

\* getStats on the ratings it has read; averageFeeling is in tenths.
getStats(list) ==
    IF Len(list) = 0
    THEN [totalRatings |-> 0, averageFeeling |-> <<0, 10>>, averageAlertness |-> <<0, 0>>,
          predictionAccuracy |-> 0, improvementTrend |-> 0]
    ELSE LET predictionRatings == SelectSeq(list, LAMBDA r : r.usedPrediction)
             goodPredictionRatings ==
                 SelectSeq(predictionRatings, LAMBDA r : r.immediateFeeling >= 4)
         IN  [totalRatings |-> Len(list),
              averageFeeling |-> <<Round(10 * SumFeeling(list), Len(list)), 10>>,
              averageAlertness |-> AverageAlertness(list),
              predictionAccuracy |->
                  IF Len(predictionRatings) > 0
                  THEN Round(100 * Len(goodPredictionRatings), Len(predictionRatings))
                  ELSE 0,
              improvementTrend |-> calculateTrend(list)]

\* The statistic-based insights of getInsights, lines 132-170, as tags.
StatisticInsights(st) ==
    (IF ~RatLess(st.averageFeeling, <<4, 1>>) THEN <<"feeling good">>
     ELSE IF ~RatLess(<<5, 2>>, st.averageFeeling) THEN <<"feeling low">>
     ELSE <<>>)
    \o (IF st.predictionAccuracy >= 70 THEN <<"accurate">>
        ELSE IF st.predictionAccuracy < 50 /\ st.predictionAccuracy > 0
        THEN <<"still learning">>
        ELSE <<>>)
    \o (IF st.improvementTrend > 10 THEN <<"improving">>
        ELSE IF st.improvementTrend < -10 THEN <<"decreased">>
        ELSE <<>>)
    \o (IF st.averageAlertness # <<0, 0>>
        THEN IF ~RatLess(st.averageAlertness, <<4, 1>>) THEN <<"alert">>
             ELSE IF ~RatLess(<<5, 2>>, st.averageAlertness) THEN <<"alertness low">>
             ELSE <<>>
        ELSE <<>>)

\* A getInsights that returns the insights it collected, none included.
GetInsightsCollected(list, st) ==
    IF Len(list) < 7 THEN <<"keep rating">>
    ELSE StatisticInsights(st)

\* getInsights on the ratings it has read and the statistics getStats gave it.
getInsights(list, st) ==
    IF Len(list) < 7 THEN <<"keep rating">>
    ELSE IF Len(StatisticInsights(st)) > 0 THEN StatisticInsights(st)
    ELSE <<"keep tracking">>

\* The mean feeling of a group of getAlgorithmAdjustments: 3 for no entries.
AverageFeelingOr3(group) ==
    IF Len(group) > 0 THEN <<SumFeeling(group), Len(group)>> ELSE <<3, 1>>

\* p - 1/2 and p + 1/2
LessHalf(p) == <<2 * p[1] - p[2], 2 * p[2]>>
PlusHalf(p) == <<2 * p[1] + p[2], 2 * p[2]>>

\* A getAlgorithmAdjustments that compares the groups of the whole log.
GetAlgorithmAdjustmentsOverAll(list) ==
    IF Len(list) < 14
    THEN [confidenceMultiplier |-> <<1, 1>>, preferEarlierWake |-> FALSE]
    ELSE LET avgPredictionFeeling ==
                 AverageFeelingOr3(SelectSeq(list, LAMBDA r : r.usedPrediction))
             avgFallbackFeeling ==
                 AverageFeelingOr3(SelectSeq(list, LAMBDA r : ~r.usedPrediction))
         IN  [confidenceMultiplier |->
                  IF RatLess(avgPredictionFeeling, LessHalf(avgFallbackFeeling))
                  THEN <<4, 5>>
                  ELSE IF RatLess(PlusHalf(avgFallbackFeeling), avgPredictionFeeling)
                  THEN <<11, 10>>
                  ELSE <<1, 1>>,
              preferEarlierWake |-> FALSE]

\* getAlgorithmAdjustments on the ratings it has read.
getAlgorithmAdjustments(list) ==
    IF Len(list) < 14
    THEN [confidenceMultiplier |-> <<1, 1>>, preferEarlierWake |-> FALSE]
    ELSE LET recentRatings == SubSeq(list, Len(list) - 13, Len(list))
             avgPredictionFeeling ==
                 AverageFeelingOr3(SelectSeq(recentRatings, LAMBDA r : r.usedPrediction))
             avgFallbackFeeling ==
                 AverageFeelingOr3(SelectSeq(recentRatings, LAMBDA r : ~r.usedPrediction))
         IN  [confidenceMultiplier |->
                  IF RatLess(avgPredictionFeeling, LessHalf(avgFallbackFeeling))
                  THEN <<4, 5>>
                  ELSE IF RatLess(PlusHalf(avgFallbackFeeling), avgPredictionFeeling)
                  THEN <<11, 10>>
                  ELSE <<1, 1>>,
              preferEarlierWake |-> FALSE]

\* The screens' calls: the ratings read, the value kept.
GetStats ==
    /\ stats' = getStats(getFeedbackRatings(ratings))
    /\ UNCHANGED <<insights, adjustments>>

GetInsights ==
    /\ insights' = getInsights(getFeedbackRatings(ratings),
                               getStats(getFeedbackRatings(ratings)))
    /\ UNCHANGED <<stats, adjustments>>

GetAlgorithmAdjustments ==
    /\ adjustments' = getAlgorithmAdjustments(getFeedbackRatings(ratings))
    /\ UNCHANGED <<stats, insights>>

(***************************************************************************)
(* generatePrediction as HomeScreen.loadData runs it, and                  *)
(* AlarmService.scheduleAlarm as handleSetAlarm runs it, one action per    *)
(* await.                                                                  *)
(***************************************************************************)
\* getUserSettings
getUserSettings(item) == item

\* A generatePrediction that keeps its last value for the wake window it was
\* computed for.
GeneratePredictionCached(window, bedtime) ==
    /\ wakeWindow' = window
    /\ estimatedBedtime' = bedtime
    /\ prediction' =
          IF prediction # NoPrediction /\ wakeWindow = window
          THEN prediction
          ELSE GeneratePredictionOf(AnalyzePatternsOf(getSleepSessions(sessions)),
                                    getFeedbackRatings(ratings), window, bedtime)
    /\ UNCHANGED <<now, ticks, storeVars, callVars, histVars, analysisVars, alarmVars>>

\* generatePrediction: the stored sessions analysed, the feedback read, the
\* prediction returned to the screen.
GeneratePrediction(window, bedtime) ==
    /\ wakeWindow' = window
    /\ estimatedBedtime' = bedtime
    /\ prediction' = GeneratePredictionOf(AnalyzePatternsOf(getSleepSessions(sessions)),
                                          getFeedbackRatings(ratings), window, bedtime)
    /\ UNCHANGED <<now, ticks, storeVars, callVars, histVars, analysisVars, alarmVars>>

Notification(identifier, type, date, usedPrediction) ==
    [identifier |-> identifier, type |-> type, date |-> date,
     usedPrediction |-> usedPrediction]

\* The identifier scheduleNotificationAsync returns: one no scheduled
\* notification has.
FreshIdentifier ==
    CHOOSE i \in 1..(Cardinality(scheduled) + 1) :
        \A n \in scheduled : n.identifier # i

\* scheduleAlarm, line 320: cancelScheduledAlarm (the alarm it remembers, then all).
ScheduleAlarmCancel ==
    /\ spc \in {"idle", "done"}
    /\ prediction # NoPrediction
    /\ scall' = [prediction |-> prediction, threshold |-> -1]
    /\ scheduled' = {}
    /\ scheduledAlarmId' = 0
    /\ spc' = "cancelled"
    /\ UNCHANGED <<now, ticks, storeVars, callVars, histVars, analysisVars, predictVars>>

\* scheduleAlarm, line 322: const settings = await storageService.getUserSettings()
ScheduleAlarmSettings ==
    /\ spc = "cancelled"
    /\ scall' = [scall EXCEPT !.threshold = getUserSettings(settings).confidenceThreshold]
    /\ spc' = "settings"
    /\ UNCHANGED <<now, ticks, storeVars, callVars, histVars, analysisVars, predictVars,
                   scheduled, scheduledAlarmId>>

\* Lines 325-330: prediction.confidence >= settings.confidenceThreshold
UsedPrediction(call) == call.prediction.confidence >= call.threshold

\* A scheduleAlarm that never schedules the backup.
ScheduleAlarmPrimaryOnly ==
    /\ spc = "settings"
    /\ scheduled' = scheduled \cup
          {Notification(FreshIdentifier, "alarm",
                        IF UsedPrediction(scall) THEN scall.prediction.predictedWakeTime
                                                 ELSE scall.prediction.fallbackTime,
                        UsedPrediction(scall))}
    /\ scheduledAlarmId' = FreshIdentifier
    /\ spc' = "done"
    /\ UNCHANGED <<now, ticks, storeVars, callVars, histVars, analysisVars, predictVars,
                   scall>>

\* scheduleAlarm, lines 325-357: the primary notification.
ScheduleAlarmPrimary ==
    /\ spc = "settings"
    /\ scheduled' = scheduled \cup
          {Notification(FreshIdentifier, "alarm",
                        IF UsedPrediction(scall) THEN scall.prediction.predictedWakeTime
                                                 ELSE scall.prediction.fallbackTime,
                        UsedPrediction(scall))}
    /\ scheduledAlarmId' = FreshIdentifier
    /\ spc' = IF UsedPrediction(scall) THEN "backup" ELSE "done"
    /\ UNCHANGED <<now, ticks, storeVars, callVars, histVars, analysisVars, predictVars,
                   scall>>

\* scheduleAlarm, lines 360-362, and scheduleBackupAlarm: the backup at the
\* hard wake time.
ScheduleAlarmBackup ==
    /\ spc = "backup"
    /\ scheduled' = scheduled \cup
          {Notification(FreshIdentifier, "backup_alarm", scall.prediction.fallbackTime,
                        FALSE)}
    /\ spc' = "done"
    /\ UNCHANGED <<now, ticks, storeVars, callVars, histVars, analysisVars, predictVars,
                   scheduledAlarmId, scall>>

(***************************************************************************)
(* Specifications                                                          *)
(***************************************************************************)
DEFAULT_SETTINGS ==
    [garminConnected |-> FALSE, confidenceThreshold |-> DefaultConfidenceThreshold]

InitClock == now = StartTime /\ ticks = 0

InitStore ==
    /\ sessions = <<>>
    /\ ratings = <<>>
    /\ settings = DEFAULT_SETTINGS

InitCalls ==
    /\ pc = [c \in Callers |-> "idle"]
    /\ arg = [c \in Callers |-> NoSession]
    /\ snap = [c \in Callers |-> <<>>]
    /\ lastAdded = [d \in PoolDates |-> NoSession]
    /\ submitted = {}
    /\ replaced = FALSE

InitAnalysis ==
    /\ apc = [r \in Requesters |-> "idle"]
    /\ asnap = [r \in Requesters |-> <<>>]
    /\ pattern = [r \in Requesters |-> NoPattern]
    /\ stored = {sessions}

InitPredict ==
    /\ wakeWindow = NoWindow
    /\ estimatedBedtime = 0
    /\ prediction = NoPrediction

InitAlarm ==
    /\ spc = "idle"
    /\ scheduled = {}
    /\ scheduledAlarmId = 0
    /\ scall = [prediction |-> NoPrediction, threshold |-> -1]

\* No prediction asked for yet, no statistics computed.
InitFeedback ==
    /\ returned = {}
    /\ stats = NoStats
    /\ insights = NoInsights
    /\ adjustments = NoAdjustments

\* Garmin not connected, no alarm set up.
InitGarmin ==
    /\ tokens = FALSE
    /\ garminTokens = FALSE
    /\ wakeWindows = <<>>
    /\ dpc = "idle"
    /\ dsnap = DEFAULT_SETTINGS
    /\ upc = "idle"
    /\ uarg = DefaultConfidenceThreshold
    /\ usnap = DEFAULT_SETTINGS

NoEstimate == [stage |-> "none"]

\* No stage asked for yet.
NoHand == [wakeWindow |-> NoWindow]
Idle == [at |-> "idle", connected |-> FALSE, activeWindow |-> NoWindow]

\* HomeScreen, lines 46-48: useState(false), useState(null), useState(null)
\* (the prediction state is the variable `prediction`).
InitHome ==
    /\ isConnected = FALSE
    /\ activeAlarm = NoWindow
    /\ loads = [r \in Requesters |-> Idle]
    /\ handed = NoHand

InitScreen ==
    /\ minutesFromSleepStart = 0
    /\ estimate = NoEstimate
    /\ consistencyResult = NoScore
    /\ InitHome

Init ==
    /\ InitClock /\ InitStore /\ InitCalls /\ InitAnalysis /\ InitPredict /\ InitAlarm
    /\ InitFeedback /\ InitGarmin /\ InitScreen

\* The storage calls of the two callers, interleaved at their awaits.
StoreStep ==
    \/ \E c \in Callers, s \in SessionPool : AddSleepSessionRead(c, s)
    \/ \E c \in Callers : AddSleepSessionWrite(c)
    \/ \E c \in Callers, r \in RatingPool : AddFeedbackRatingRead(c, r)
    \/ \E c \in Callers : AddFeedbackRatingWrite(c)
    \/ Tick

Next ==
    StoreStep /\ UNCHANGED <<analysisVars, predictVars, alarmVars, returned, feedbackVars,
                             garminVars, screenVars>>

Spec == Init /\ [][Next]_vars

\* The same calls, each awaited before the next is made (the loop of
\* syncRecentSleepData, one screen at a time).
Quiet == \A c \in Callers : pc[c] = "idle"

SeqStep ==
    \/ \E c \in Callers, s \in SessionPool : Quiet /\ AddSleepSessionRead(c, s)
    \/ \E c \in Callers : AddSleepSessionWrite(c)
    \/ \E c \in Callers, r \in RatingPool : Quiet /\ AddFeedbackRatingRead(c, r)
    \/ \E c \in Callers : AddFeedbackRatingWrite(c)
    \/ Tick

NextSeq ==
    SeqStep /\ UNCHANGED <<analysisVars, predictVars, alarmVars, returned, feedbackVars,
                           garminVars, screenVars>>

SpecSeq == Init /\ [][NextSeq]_vars

(***************************************************************************)
(* Properties of the storage collaborator                                  *)
(***************************************************************************)
Retained(time) == time > CutoffDate(now)

\* C7: concurrent appends lose no update: every session whose addSleepSession
\* has completed (the last one completed for its date) and every rating whose
\* addFeedbackRating has completed is in the stored list, unless the 90-day
\* cutoff has dropped it, under every interleaving of the calls.
C7_NoLostUpdate ==
    /\ \A d \in PoolDates :
          (lastAdded[d] # NoSession /\ Retained(lastAdded[d].sleepEnd))
              => lastAdded[d] \in Range(sessions)
    /\ \A r \in submitted : Retained(r.wakeTime) => r \in Range(ratings)

NoDuplicateDates(list) ==
    \A i, j \in 1..Len(list) : list[i].date = list[j].date => i = j

\* C8: sessions are upserted by date: with the calls made one after another the
\* stored list holds at most one session per date, the session stored for a
\* date within retention is the one added last for it, and adding a session a
\* second time saves the list that adding it once saved.
C8_UpsertByDate ==
    /\ NoDuplicateDates(sessions)
    /\ \A d \in PoolDates :
          (lastAdded[d] # NoSession /\ Retained(lastAdded[d].sleepEnd))
              => \E i \in 1..Len(sessions) : sessions[i] = lastAdded[d]
    /\ \A s \in SessionPool :
          LET once == AddSleepSessionList(getSleepSessions(sessions), s, now)
          IN  AddSleepSessionList(getSleepSessions(once), s, now) = once

\* C8 witness: a re-sync of a stored date has replaced its session, and the
\* list holds the later version beside the session of another date.
C8_Witness ==
    /\ replaced
    /\ Len(sessions) = 2
    /\ \E s \in SessionPool : s.id = 3 /\ s \in Range(sessions) /\ lastAdded[s.date] = s

IsCompletion(c, op) == pc[c] = op /\ pc'[c] = "idle"

\* C9: 90-day retention: right after an addSleepSession call completes no
\* stored session ended more than 90 days before the call, and right after an
\* addFeedbackRating call completes no stored rating is of a wake more than 90
\* days before the call.
C9_Retention ==
    [][ /\ (\E c \in Callers : IsCompletion(c, "addSleepSession"))
            => \A s \in Range(sessions') : s.sleepEnd >= CutoffDate(now')
        /\ (\E c \in Callers : IsCompletion(c, "addFeedbackRating"))
            => \A r \in Range(ratings') : r.wakeTime >= CutoffDate(now')
      ]_vars

\* C9 witness: a session and a rating that were added have left the 90 days,
\* and the calls completed since have dropped them from the lists that are
\* stored now.
C9_Witness ==
    /\ \E d \in PoolDates :
          /\ lastAdded[d] # NoSession
          /\ ~Retained(lastAdded[d].sleepEnd)
          /\ lastAdded[d] \notin Range(sessions)
    /\ sessions # <<>>
    /\ \E r \in submitted : ~Retained(r.wakeTime) /\ r \notin Range(ratings)
    /\ ratings # <<>>

\* The nights already stored when a screen opens: the n nights before today,
\* as earlier syncs saved them.
History(n) ==
    [i \in 1..n |->
        IF i % 2 = 0 THEN Session(Today - n + i - 1, 10 + i, 23, 0, 480, LayoutCycle90)
                     ELSE Session(Today - n + i - 1, 10 + i, 23, 30, 450, LayoutCycle75)]

InitAnalyze ==
    /\ InitClock /\ InitCalls /\ InitPredict /\ InitAlarm /\ InitFeedback /\ InitGarmin /\ InitScreen
    /\ sessions = History(MIN_DATA_DAYS - 1)
    /\ ratings = <<>>
    /\ settings = DEFAULT_SETTINGS
    /\ InitAnalysis

\* The nights a sync delivers while the requests run: an old night and last night.
SyncedNights == {s \in SessionPool : s.id <= 2}

\* A sync (the loop of syncRecentSleepData) appends while the requests run.
AnalyzeStep ==
    \/ /\ \E s \in SyncedNights : AddSleepSessionRead("c1", s)
       /\ UNCHANGED analysisVars
    \/ /\ AddSleepSessionWrite("c1")
       /\ stored' = stored \cup {sessions'}
       /\ UNCHANGED <<apc, asnap, pattern>>
    \/ /\ Tick
       /\ UNCHANGED analysisVars
    \/ /\ \E r \in Requesters : AnalyzePatternsRead(r)
       /\ UNCHANGED <<now, ticks, storeVars, callVars, histVars>>
    \/ /\ \E r \in Requesters : AnalyzePatternsReturn(r)
       /\ UNCHANGED <<now, ticks, storeVars, callVars, histVars>>

NextAnalyze ==
    AnalyzeStep /\ UNCHANGED <<predictVars, alarmVars, returned, feedbackVars, garminVars, screenVars>>

SpecAnalyze == InitAnalyze /\ [][NextAnalyze]_vars

(***************************************************************************)
(* Properties of the pattern analyzer                                      *)
(***************************************************************************)
IsNull(pat) == pat.dataPoints = -1

\* C1: analyzePatterns returns null whenever the stored history it read has
\* fewer than 7 sessions, and the dataPoints of a pattern it returns is the
\* number of sessions it read, hence at least 7.
C1_MinimumData ==
    \A r \in Requesters :
        apc[r] = "done" =>
            /\ Len(asnap[r]) < 7 => IsNull(pattern[r])
            /\ ~IsNull(pattern[r]) =>
                  pattern[r].dataPoints = Len(asnap[r]) /\ pattern[r].dataPoints >= 7

\* C1 witness: one request has returned null for six stored sessions and
\* another a pattern for seven.
C1_Witness ==
    \E r, q \in Requesters :
        /\ apc[r] = "done" /\ Len(asnap[r]) = 6 /\ IsNull(pattern[r])
        /\ apc[q] = "done" /\ Len(asnap[q]) = 7 /\ pattern[q].dataPoints = 7

\* C10: a pattern returned while a sync appends is derived, in all its
\* fields, from one list that was the stored list at one instant; no request
\* returns a pattern that mixes two stored lists.
C10_OneSnapshot ==
    \A r \in Requesters :
        (apc[r] = "done" /\ ~IsNull(pattern[r])) =>
            \E list \in stored : pattern[r] = AnalyzePatternsOf(list)

\* C10 witness: a request has returned a pattern of a list that the sync has
\* replaced since the request read it.
C10_Witness ==
    \E r \in Requesters :
        /\ apc[r] = "done" /\ ~IsNull(pattern[r])
        /\ asnap[r] # sessions
        /\ Len(sessions) > Len(asnap[r])

(***************************************************************************)
(* The predictor and the scheduler over bounded inputs                     *)
(***************************************************************************)
\* The most nights stored when a prediction is asked for.
MaxNights == 9

\* n nights that all went the same way.
RegularHistory(n) ==
    [i \in 1..n |-> Session(Today - n + i - 1, 30 + i, 23, 0, 480, LayoutCycle90)]

\* Nothing stored, one night short of an analysis, just enough, and more.
StoredHistories ==
    {<<>>, History(MIN_DATA_DAYS - 1), History(MIN_DATA_DAYS), RegularHistory(MaxNights)}

\* n ratings of one feeling, of the n mornings before today.
Feedback(n, feeling) ==
    [i \in 1..n |-> Rating(10 + i, At(Today - n + i - 1, 7, 0), feeling, TRUE)]

StoredFeedback == {<<>>, Feedback(2, 5), Feedback(2, 1)}

\* The thresholds SettingsScreen offers.
Thresholds == {30, 40, 50, 60, 70}

\* The alarms of AlarmSetupScreen, hard wake time 07:00: the window durations
\* it offers, and an explicit earliest time before, at and after 07:00.
Window30 == WakeWindow(30, <<7, 0>>, 30, FALSE, <<0, 0>>)
Window60 == WakeWindow(60, <<7, 0>>, 60, FALSE, <<0, 0>>)
WindowFrom0633 == WakeWindow(1, <<7, 0>>, 30, TRUE, <<6, 33>>)
WindowFrom0700 == WakeWindow(2, <<7, 0>>, 30, TRUE, <<7, 0>>)
WindowFrom0800 == WakeWindow(3, <<7, 0>>, 30, TRUE, <<8, 0>>)

\* The calls of generatePrediction: a wake window and an estimated bedtime
\* (11pm as HomeScreen.loadData estimates it, an early evening, after
\* midnight, an afternoon).
PredictionRequests ==
    {<<Window30, At(Today, 23, 0)>>,
     <<Window30, At(Today, 21, 30)>>,
     <<Window60, At(Today, 17, 0)>>,
     <<WindowFrom0633, At(Today + 1, 0, 30)>>,
     <<WindowFrom0700, At(Today, 23, 0)>>,
     <<WindowFrom0800, At(Today, 17, 0)>>}

InitPredictor ==
    /\ InitClock /\ InitCalls /\ InitPredict /\ InitAlarm /\ InitFeedback /\ InitGarmin /\ InitScreen
    /\ sessions \in StoredHistories
    /\ ratings \in StoredFeedback
    /\ settings \in {[DEFAULT_SETTINGS EXCEPT !.confidenceThreshold = v] : v \in Thresholds}
    /\ InitAnalysis

PredictStep ==
    \/ \E q \in PredictionRequests : GeneratePrediction(q[1], q[2])
    \/ ScheduleAlarmCancel
    \/ ScheduleAlarmSettings
    \/ ScheduleAlarmPrimary
    \/ ScheduleAlarmBackup

NextPredict == PredictStep /\ UNCHANGED <<returned, feedbackVars, garminVars, screenVars>>

SpecPredict == InitPredictor /\ [][NextPredict]_vars

(***************************************************************************)
(* Properties of the predictor and the scheduler                           *)
(***************************************************************************)
\* The hard wake time of the prediction on the screen.
HardDeadline == parseWakeTime(wakeWindow.hardWakeTime, estimatedBedtime)

\* C2: with fewer than 7 sessions stored, generatePrediction returns
\* confidence 0, predictedWakeTime = hardWakeTime = fallbackTime and stage
\* light, whatever the wake window and the bedtime.
C2_FallbackWithoutData ==
    (prediction # NoPrediction /\ Len(sessions) < 7) =>
        /\ prediction.confidence = 0
        /\ prediction.predictedWakeTime = HardDeadline
        /\ prediction.fallbackTime = HardDeadline
        /\ prediction.predictedStage = "light"

\* Six nights stored and a prediction for the 60-minute window.
C2_Witness ==
    /\ prediction # NoPrediction
    /\ Len(sessions) = 6
    /\ wakeWindow = Window60
    /\ prediction.predictedWakeTime = HardDeadline

\* C3: the confidence generatePrediction returns is an integer from 0 to 95.
C3_ConfidenceRange ==
    prediction # NoPrediction => prediction.confidence \in 0..95

\* A prediction from a pattern whose confidence the clamp brought down to 95.
C3_Witness ==
    /\ prediction # NoPrediction
    /\ Len(sessions) >= MIN_DATA_DAYS
    /\ prediction.confidence = 95
    /\ LET pat == AnalyzePatternsOf(getSleepSessions(sessions))
           found == findOptimalWakeTime(EarliestWake(wakeWindow, estimatedBedtime),
                                        HardDeadline, estimatedBedtime, pat)
       IN  ConfidenceTwentieths(found.baseConfidence, pat, getFeedbackRatings(ratings),
                                estimatedBedtime) > 20 * 95

\* earliestWake as the wake window states it: the explicit earliest time if
\* set, the hard wake time less the window duration otherwise.
StatedEarliestWake ==
    IF wakeWindow.hasEarliestWakeTime
    THEN parseWakeTime(wakeWindow.earliestWakeTime, estimatedBedtime)
    ELSE HardDeadline - wakeWindow.windowDurationMinutes

\* C4: for a wake window whose earliest time is not after its hard wake time,
\* earliestWake <= predictedWakeTime <= hardWakeTime, with and without a
\* pattern.
C4_WithinWindow ==
    (prediction # NoPrediction /\ StatedEarliestWake <= HardDeadline) =>
        /\ StatedEarliestWake <= prediction.predictedWakeTime
        /\ prediction.predictedWakeTime <= HardDeadline

\* A prediction from a pattern, inside a window from 06:33, before the hard wake time.
C4_Witness ==
    /\ prediction # NoPrediction
    /\ Len(sessions) >= MIN_DATA_DAYS
    /\ wakeWindow = WindowFrom0633
    /\ StatedEarliestWake <= prediction.predictedWakeTime
    /\ prediction.predictedWakeTime < HardDeadline

\* The notification scheduleAlarm remembers as the alarm.
PrimaryAlarm == CHOOSE n \in scheduled : n.identifier = scheduledAlarmId

\* C5: once scheduleAlarm has completed, a notification is scheduled at
\* prediction.fallbackTime - the primary alarm when the fallback is used, the
\* backup alarm when the predicted time is used - and nothing is scheduled
\* later than fallbackTime.
C5_NeverLaterThanDeadline ==
    spc = "done" =>
        /\ \E n \in scheduled : n.identifier = scheduledAlarmId /\ n.type = "alarm"
        /\ IF PrimaryAlarm.usedPrediction
           THEN \E n \in scheduled :
                    n.type = "backup_alarm" /\ n.date = scall.prediction.fallbackTime
           ELSE PrimaryAlarm.date = scall.prediction.fallbackTime
        /\ \A n \in scheduled : n.date <= scall.prediction.fallbackTime

\* scheduleAlarm has completed with the alarm ahead of the deadline and the
\* backup at the deadline.
C5_Witness ==
    /\ spc = "done"
    /\ PrimaryAlarm.usedPrediction
    /\ PrimaryAlarm.date < scall.prediction.fallbackTime
    /\ \E n \in scheduled : n.type = "backup_alarm" /\ n.date = scall.prediction.fallbackTime

\* C6: the primary alarm is at predictedWakeTime only when the confidence is
\* strictly above the user's confidenceThreshold; in every other case, a
\* confidence equal to the threshold included, it is at fallbackTime.
C6_StrictlyAboveThreshold ==
    spc = "done" =>
        PrimaryAlarm.date =
            IF scall.prediction.confidence > settings.confidenceThreshold
            THEN scall.prediction.predictedWakeTime
            ELSE scall.prediction.fallbackTime

(***************************************************************************)
(* Repeated calls of generatePrediction                                    *)
(***************************************************************************)
\* The calls repeated: the same window at two bedtimes, and another window.
RepeatedRequests ==
    {<<Window30, At(Today, 23, 0)>>,
     <<Window30, At(Today, 21, 30)>>,
     <<Window60, At(Today, 17, 0)>>}

\* One call of generatePrediction: what it was given and read, and its value.
Call(window, bedtime, value) ==
    [sessions |-> sessions, ratings |-> ratings, settings |-> settings,
     wakeWindow |-> window, estimatedBedtime |-> bedtime, prediction |-> value]

\* HomeScreen.loadData on every focus: the prediction is asked for again.
RepeatStep ==
    \E q \in RepeatedRequests :
        /\ GeneratePrediction(q[1], q[2])
        /\ returned' = returned \cup {Call(q[1], q[2], prediction')}

NextRepeat == RepeatStep /\ UNCHANGED <<feedbackVars, garminVars, screenVars>>

SpecRepeat == InitPredictor /\ [][NextRepeat]_vars

SameInputs(a, b) ==
    /\ a.sessions = b.sessions /\ a.ratings = b.ratings /\ a.settings = b.settings
    /\ a.wakeWindow = b.wakeWindow /\ a.estimatedBedtime = b.estimatedBedtime

MaxSynthetic == 8

\* A night of `cycles` light -> deep -> light cycles of `length` minutes: light
\* at every multiple of `length`, deep `deepAfter` minutes after each light.
CycleLayout(length, cycles, deepAfter) ==
    [i \in 1..(2 * cycles + 2) |->
        IF i % 2 = 1 THEN <<"light", ((i - 1) \div 2) * length>>
                     ELSE <<"deep", ((i - 2) \div 2) * length + deepAfter>>]

\* n nights of that layout.
CycleHistory(n, length, cycles) ==
    [i \in 1..n |-> Session(Today - n + i - 1, 50 + i, 23, 0, 480,
                            CycleLayout(length, cycles, 20))]

\* The cycle lengths tried: the ends and the inside of 60..120, and one
\* minute outside either end.
CycleLengthsTried == {59, 60, 61, 75, 90, 105, 119, 120, 121}

\* A night whose stages starting in [from, from + 30) are light and whose
\* other stages are not.
LightBlockLayout(from) ==
    (IF from > 0 THEN << <<"awake", 0>> >> ELSE <<>>)
        \o << <<"light", from>>, <<"light", from + bucketSizeMinutes>>,
              <<"deep", from + 45>>, <<"rem", from + 100>> >>

LightBlockHistory(n, from) ==
    [i \in 1..n |-> Session(Today - n + i - 1, 70 + i, 23, 0, 480, LightBlockLayout(from))]

BlockStartsTried == {0, 90, 180}

\* A stored history one of whose sessions has no `stages` member.
WithoutStages(list, i) ==
    [list EXCEPT ![i] = [list[i] EXCEPT !.hasStages = FALSE, !.stages = <<>>]]

SyntheticHistories ==
    {CycleHistory(n, x, c) : n \in MIN_DATA_DAYS..MaxSynthetic, x \in CycleLengthsTried,
                             c \in 1..2}
        \cup {LightBlockHistory(n, b) : n \in MIN_DATA_DAYS..MaxSynthetic,
                                        b \in BlockStartsTried}
        \cup UNION {{WithoutStages(History(n), i) : i \in {1, n}} :
                        n \in MIN_DATA_DAYS..MaxSynthetic}

InitSynthetic ==
    /\ InitClock /\ InitCalls /\ InitPredict /\ InitAlarm /\ InitFeedback /\ InitGarmin /\ InitScreen
    /\ sessions \in SyntheticHistories
    /\ ratings = <<>>
    /\ settings = DEFAULT_SETTINGS
    /\ InitAnalysis

SyntheticStep ==
    \/ \E r \in Requesters : AnalyzePatternsRead(r)
    \/ \E r \in Requesters : AnalyzePatternsReturn(r)

NextSynthetic ==
    SyntheticStep /\ UNCHANGED <<now, ticks, storeVars, callVars, histVars, predictVars,
                                 alarmVars, returned, feedbackVars, garminVars, screenVars>>

SpecSynthetic == InitSynthetic /\ [][NextSynthetic]_vars

\* C12: for at least 7 sessions whose stages (at least 4 each) are an exact
\* light -> deep -> light cycle of X minutes, 60 <= X <= 120, repeated, the
\* averageCycleLength of the pattern is X.
C12_CycleLength ==
    \A r \in Requesters :
        apc[r] = "done" =>
            \A n \in MIN_DATA_DAYS..MaxSynthetic, x \in 60..120, c \in 1..2 :
                asnap[r] = CycleHistory(n, x, c) => pattern[r].averageCycleLength = x

\* A pattern returned for cycles of 60 minutes, and one for cycles of 120.
C12_Witness ==
    \E r \in Requesters :
        /\ apc[r] = "done" /\ ~IsNull(pattern[r])
        /\ \E n \in MIN_DATA_DAYS..MaxSynthetic, c \in 1..2, x \in {60, 120} :
              asnap[r] = CycleHistory(n, x, c) /\ pattern[r].averageCycleLength = x

\* C13: when every stage starting in [B, B + 30) is light in all sessions and
\* no other stage is light, typicalLightSleepWindows is exactly one window,
\* [B, B + 30), with probability 1.0 (light count over total count).
C13_LightWindowProbability ==
    \A r \in Requesters :
        apc[r] = "done" =>
            \A n \in MIN_DATA_DAYS..MaxSynthetic, b \in BlockStartsTried :
                asnap[r] = LightBlockHistory(n, b) =>
                    /\ Len(pattern[r].typicalLightSleepWindows) = 1
                    /\ pattern[r].typicalLightSleepWindows[1].startMinutesFromSleep = b
                    /\ pattern[r].typicalLightSleepWindows[1].endMinutesFromSleep = b + 30
                    /\ pattern[r].typicalLightSleepWindows[1].probability[1]
                          = pattern[r].typicalLightSleepWindows[1].probability[2]

\* The stored sessions that have a stage list.
WithStages(list) == SelectSeq(list, LAMBDA s : s.hasStages)

\* C14: with a session without a stage list among at least 7 stored sessions,
\* analyzePatterns returns a pattern that counts the session in dataPoints
\* and the average duration and leaves it out of the cycle detection and the
\* light-sleep histogram.
C14_MissingStagesTolerated ==
    \A r \in Requesters :
        (/\ apc[r] = "done"
         /\ Len(sessions) >= MIN_DATA_DAYS
         /\ \E i \in 1..Len(sessions) : ~sessions[i].hasStages) =>
            /\ ~IsNull(pattern[r])
            /\ pattern[r].dataPoints = Len(sessions)
            /\ pattern[r].averageSleepDuration = calculateAverageDuration(sessions)
            /\ pattern[r].averageCycleLength = detectCycleLength(WithStages(sessions))
            /\ pattern[r].typicalLightSleepWindows
                   = findLightSleepWindows(WithStages(sessions))

(***************************************************************************)
(* The feedback engine on stored rating logs.  The log is what             *)
(* submitRating has appended, one rating a day, the oldest first.          *)
(***************************************************************************)
\* A log long enough that one rating moves a half's mean by less than 0.025.
LongLog == 82

\* The ratings of the given feelings on consecutive days up to today; `used`
\* holds the indices of those that used the prediction.
RatingLog(feelings, used, alertness) ==
    [i \in 1..Len(feelings) |->
        FeedbackRating(i, Today - Len(feelings) + i, feelings[i], i \in used, alertness)]

\* The first `at` ratings feel `first`, the others `rest`; mode picks the
\* ratings that used the prediction.
StepLog(n, at, first, rest, mode, alertness) ==
    RatingLog([i \in 1..n |-> IF i <= at THEN first ELSE rest],
              {i \in 1..n : CASE mode = "all" -> TRUE
                              [] mode = "none" -> FALSE
                              [] mode = "first" -> i <= at
                              [] mode = "rest" -> i > at
                              [] mode = "odd" -> i % 2 = 1},
              alertness)

\* Two early prediction wakes of 1 and 5, then thirteen fallback wakes of 4.
RecentDiffers == RatingLog(<<1, 5>> \o [i \in 1..13 |-> 4], {1, 2}, 0)

LogLengths == {0, 4, 5, 6, 7, 13, 14, 15}
FeelingSteps == {<<1, 5>>, <<5, 1>>, <<3, 4>>, <<4, 3>>, <<3, 3>>, <<2, 2>>}
UsedModes == {"all", "none", "first", "rest", "odd"}

StoredLogs ==
    UNION {{StepLog(n, at, f[1], f[2], mode, alertness) :
                at \in {0, 1, n \div 2, n - 1} \cap (0..n),
                f \in FeelingSteps, mode \in UsedModes, alertness \in {0, 5}} :
           n \in LogLengths}
    \cup {RecentDiffers}
    \cup {StepLog(LongLog, at, f[1], f[2], "odd", 0) :
              at \in {1, LongLog - 1}, f \in {<<3, 4>>, <<4, 3>>}}

InitFeedbackEngine ==
    /\ InitClock
    /\ sessions = <<>>
    /\ ratings \in StoredLogs
    /\ settings = DEFAULT_SETTINGS
    /\ InitCalls
    /\ InitAnalysis
    /\ InitPredict
    /\ InitAlarm
    /\ InitFeedback
    /\ InitGarmin
    /\ InitScreen

NextFeedback ==
    /\ \/ GetStats
       \/ GetInsights
       \/ GetAlgorithmAdjustments
    /\ UNCHANGED <<now, ticks, storeVars, callVars, histVars, analysisVars,
                   predictVars, alarmVars, returned, garminVars, screenVars>>

SpecFeedback == InitFeedbackEngine /\ [][NextFeedback]_vars

\* The indices of the stored ratings that used the prediction, and of those
\* among them that felt 4 or better.
UsedPredictionIn(log) == {i \in 1..Len(log) : log[i].usedPrediction}
FeltGoodIn(log) == {i \in UsedPredictionIn(log) : log[i].immediateFeeling >= 4}

\* The ratings 5, 5, 1, 1 of which the first two used the prediction.
IsTwoGoodTwoBad(log) ==
    /\ [i \in 1..Len(log) |-> log[i].immediateFeeling] = <<5, 5, 1, 1>>
    /\ UsedPredictionIn(log) = {1, 2}

\* C15: the statistics getStats returned have averageFeeling equal to the mean
\* of immediateFeeling rounded to one decimal, and predictionAccuracy equal to
\* the rounded percentage of the ratings that used the prediction and felt 4 or
\* better, 0 when none used it; the accuracy lies in 0..100; the ratings
\* 5, 5, 1, 1 with the first two on the prediction give 3.0 and 100.
C15_Stats ==
    stats # NoStats =>
        /\ stats.totalRatings = Len(ratings)
        /\ stats.predictionAccuracy \in 0..100
        /\ stats.averageFeeling[2] = 10
        /\ Len(ratings) > 0 =>
               /\ 2 * Len(ratings) * stats.averageFeeling[1]
                      <= 20 * SumFeeling(ratings) + Len(ratings)
               /\ 2 * Len(ratings) * (stats.averageFeeling[1] + 1)
                      > 20 * SumFeeling(ratings) + Len(ratings)
        /\ Len(ratings) = 0 => stats.averageFeeling[1] = 0
        /\ UsedPredictionIn(ratings) = {} => stats.predictionAccuracy = 0
        /\ UsedPredictionIn(ratings) # {} =>
               LET used == Cardinality(UsedPredictionIn(ratings))
                   good == Cardinality(FeltGoodIn(ratings))
               IN  /\ 2 * used * stats.predictionAccuracy <= 200 * good + used
                   /\ 2 * used * (stats.predictionAccuracy + 1) > 200 * good + used
        /\ IsTwoGoodTwoBad(ratings) =>
               /\ stats.averageFeeling = <<30, 10>>
               /\ stats.predictionAccuracy = 100

C15_Witness ==
    /\ stats # NoStats
    /\ IsTwoGoodTwoBad(ratings)
    /\ stats.predictionAccuracy = 100

\* The feelings of a log never fall, or never rise, as the dates go on, and
\* are not all the same.
NeverFalls(log) ==
    \A i, j \in 1..Len(log) :
        log[i].date < log[j].date => log[i].immediateFeeling <= log[j].immediateFeeling
NeverRises(log) ==
    \A i, j \in 1..Len(log) :
        log[i].date < log[j].date => log[i].immediateFeeling >= log[j].immediateFeeling
Changes(log) ==
    \E i, j \in 1..Len(log) : log[i].immediateFeeling # log[j].immediateFeeling

\* (mean of the second half - mean of the first half) * 20 of a log of 6 or
\* more ratings, sorted by date and split at floor(n/2), as a fraction.
HalfDelta(log) ==
    LET sorted == SortByDate(log)
        half == Len(log) \div 2
        early == SubSeq(sorted, 1, half)
        late == SubSeq(sorted, half + 1, Len(log))
    IN  <<20 * (SumFeeling(late) * Len(early) - SumFeeling(early) * Len(late)),
          Len(early) * Len(late)>>

\* C16: improvementTrend is 0 with fewer than 6 ratings; with 6 or more it is
\* round((mean of second half - mean of first half) * 20) after sorting by
\* date and splitting at floor(n/2); it is never negative when the feelings
\* never fall and never positive when they never rise; and for at most 78
\* ratings that are not all equal it is positive when they never fall and
\* negative when they never rise.
C16_Trend ==
    stats # NoStats =>
        /\ Len(ratings) < 6 => stats.improvementTrend = 0
        /\ Len(ratings) >= 6 =>
               LET d == HalfDelta(ratings)
               IN  /\ 2 * d[2] * stats.improvementTrend <= 2 * d[1] + d[2]
                   /\ 2 * d[2] * (stats.improvementTrend + 1) > 2 * d[1] + d[2]
        /\ NeverFalls(ratings) => stats.improvementTrend >= 0
        /\ NeverRises(ratings) => stats.improvementTrend <= 0
        /\ Len(ratings) \in 6..78 /\ Changes(ratings) /\ NeverFalls(ratings)
               => stats.improvementTrend > 0
        /\ Len(ratings) \in 6..78 /\ Changes(ratings) /\ NeverRises(ratings)
               => stats.improvementTrend < 0

C16_Witness ==
    /\ stats # NoStats
    /\ Len(ratings) >= 6
    /\ Changes(ratings)
    /\ NeverRises(ratings)
    /\ stats.improvementTrend < 0

\* C16 as stated: with 6 or more ratings the trend is positive for every
\* increasing feeling sequence and negative for every decreasing one.
C16_TrendSign ==
    stats # NoStats /\ Len(ratings) >= 6 /\ Changes(ratings) =>
        /\ NeverFalls(ratings) => stats.improvementTrend > 0
        /\ NeverRises(ratings) => stats.improvementTrend < 0

\* The insights that are drawn from the statistics.
StatisticTags ==
    {"feeling good", "feeling low", "accurate", "still learning",
     "improving", "decreased", "alert", "alertness low"}

\* C17: getInsights returns at least one string for every stored rating log;
\* with fewer than 7 ratings it returns exactly one string, the prompt to
\* keep rating, and no insight drawn from the statistics.
C17_AtLeastOneInsight ==
    insights # NoInsights =>
        /\ Len(insights) >= 1
        /\ Len(ratings) < 7 =>
               /\ insights = <<"keep rating">>
               /\ \A i \in 1..Len(insights) : insights[i] \notin StatisticTags

\* Seven or more ratings from which no statistic yields an insight.
C17_Witness ==
    /\ insights # NoInsights
    /\ Len(ratings) >= 7
    /\ \A i \in 1..Len(insights) : insights[i] \notin StatisticTags

\* The last 14 ratings of a log of 14 or more, those of them that used the
\* prediction, and those that woke at the fallback time.
LastFourteen(log) == {i \in 1..Len(log) : i > Len(log) - 14}
OnPrediction(log) == {i \in LastFourteen(log) : log[i].usedPrediction}
OnFallback(log) == {i \in LastFourteen(log) : ~log[i].usedPrediction}

RECURSIVE FeelingOver(_, _)
\* The sum of the feelings of the ratings at the given indices.
FeelingOver(log, indices) ==
    IF indices = {} THEN 0
    ELSE LET i == CHOOSE x \in indices : TRUE
         IN  log[i].immediateFeeling + FeelingOver(log, indices \ {i})

\* The mean feeling of the ratings at the given indices as a fraction; a
\* group without ratings counts as the neutral feeling 3.
GroupMean(log, indices) ==
    IF indices = {} THEN <<3, 1>>
    ELSE <<FeelingOver(log, indices), Cardinality(indices)>>

\* C18: getAlgorithmAdjustments returns the neutral multiplier 1.0 with fewer
\* than 14 ratings; otherwise, over the last 14 ratings only, the multiplier
\* is 0.8 if the mean feeling of the prediction wakes is more than 0.5 below
\* that of the fallback wakes, 1.1 if it is more than 0.5 above, else 1.0,
\* where a group that has no rating among the last 14 counts as mean 3; the
\* multiplier is one of 0.8, 1.0, 1.1 and preferEarlierWake is false.
C18_Adjustments ==
    adjustments # NoAdjustments =>
        /\ adjustments.confidenceMultiplier \in {<<4, 5>>, <<1, 1>>, <<11, 10>>}
        /\ adjustments.preferEarlierWake = FALSE
        /\ Len(ratings) < 14 => adjustments.confidenceMultiplier = <<1, 1>>
        /\ Len(ratings) >= 14 =>
               LET p == GroupMean(ratings, OnPrediction(ratings))
                   f == GroupMean(ratings, OnFallback(ratings))
                   \* 2 * p[2] * f[2] * (prediction mean - fallback mean)
                   twice == 2 * (p[1] * f[2] - f[1] * p[2])
               IN  adjustments.confidenceMultiplier =
                       IF twice < -(p[2] * f[2]) THEN <<4, 5>>
                       ELSE IF twice > p[2] * f[2] THEN <<11, 10>>
                       ELSE <<1, 1>>

\* More than 14 ratings whose last 14 put the prediction ahead although the
\* whole log puts it behind.
C18_Witness ==
    /\ adjustments # NoAdjustments
    /\ ratings = RecentDiffers
    /\ adjustments.confidenceMultiplier = <<11, 10>>

\* C18 as stated: with 14 or more ratings the multiplier leaves 1.0 only when
\* the prediction wakes of the last 14 have a mean feeling that is more than
\* 0.5 away from the mean feeling of the fallback wakes.
C18_OnlyOnComparedMeans ==
    adjustments # NoAdjustments /\ Len(ratings) >= 14 =>
        (adjustments.confidenceMultiplier # <<1, 1>>
             => OnPrediction(ratings) # {} /\ OnFallback(ratings) # {})

(***************************************************************************)
(* Disconnecting Garmin on the settings screen.  GarminService.disconnect  *)
(* drops its tokens and removes the stored ones, then saveUserSettings     *)
(* reads the stored settings and writes them back with garminConnected     *)
(* false.  The screen stays usable meanwhile: updateSetting saves a        *)
(* confidence threshold through the same saveUserSettings.                 *)
(***************************************************************************)
\* The Disconnect button of a connected account:
\* this.tokens = null; await storageService.clearGarminTokens()
DisconnectClear ==
    /\ dpc = "idle"
    /\ tokens
    /\ tokens' = FALSE
    /\ garminTokens' = FALSE
    /\ dpc' = "cleared"
    /\ UNCHANGED <<wakeWindows, dsnap, upc, uarg, usnap, storeVars>>

\* saveUserSettings({garminConnected: false}): const current = await getUserSettings()
DisconnectRead ==
    /\ dpc = "cleared"
    /\ dsnap' = getUserSettings(settings)
    /\ dpc' = "read"
    /\ UNCHANGED <<tokens, garminTokens, wakeWindows, upc, uarg, usnap, storeVars>>

\* setItem(USER_SETTINGS, {...current, garminConnected: false})
DisconnectWrite ==
    /\ dpc = "read"
    /\ settings' = [dsnap EXCEPT !.garminConnected = FALSE]
    /\ dpc' = "idle"
    /\ UNCHANGED <<tokens, garminTokens, wakeWindows, dsnap, upc, uarg, usnap,
                   sessions, ratings>>

\* updateSetting('confidenceThreshold', value): saveUserSettings reads.
UpdateSettingRead(value) ==
    /\ upc = "idle"
    /\ uarg' = value
    /\ usnap' = getUserSettings(settings)
    /\ upc' = "read"
    /\ UNCHANGED <<tokens, garminTokens, wakeWindows, dpc, dsnap, storeVars>>

\* updateSetting: saveUserSettings writes {...current, confidenceThreshold: value}.
UpdateSettingWrite ==
    /\ upc = "read"
    /\ settings' = [usnap EXCEPT !.confidenceThreshold = uarg]
    /\ upc' = "idle"
    /\ UNCHANGED <<tokens, garminTokens, wakeWindows, dpc, dsnap, uarg, usnap,
                   sessions, ratings>>

\* A connected account with its history, its ratings and its alarms stored.
InitConnected ==
    /\ InitClock /\ InitCalls /\ InitPredict /\ InitAlarm /\ InitFeedback /\ InitScreen
    /\ sessions \in StoredHistories
    /\ ratings \in StoredFeedback
    /\ settings \in {[garminConnected |-> TRUE, confidenceThreshold |-> v] : v \in Thresholds}
    /\ InitAnalysis
    /\ tokens = TRUE
    /\ garminTokens = TRUE
    /\ wakeWindows \in {<<>>, <<Window30>>, <<Window30, Window60>>}
    /\ dpc = "idle"
    /\ dsnap = DEFAULT_SETTINGS
    /\ upc = "idle"
    /\ uarg = DefaultConfidenceThreshold
    /\ usnap = DEFAULT_SETTINGS

NextDisconnect ==
    /\ \/ DisconnectClear
       \/ DisconnectRead
       \/ DisconnectWrite
       \/ \E value \in Thresholds : UpdateSettingRead(value)
       \/ UpdateSettingWrite
    /\ UNCHANGED <<now, ticks, callVars, histVars, analysisVars, predictVars, alarmVars,
                   returned, feedbackVars, screenVars>>

SpecDisconnect == InitConnected /\ [][NextDisconnect]_vars

\* A step of disconnect, and its last step.
DisconnectStep == dpc' # dpc
DisconnectDone == dpc = "read" /\ dpc' = "idle"

\* C19: every step of disconnect leaves the stored sessions, ratings and wake
\* windows unchanged; when it has finished the tokens are cleared and
\* garminConnected is false, and every other settings field is as it was
\* stored before the step.
C19_DisconnectKeepsData ==
    [][DisconnectStep =>
           /\ sessions' = sessions
           /\ ratings' = ratings
           /\ wakeWindows' = wakeWindows
           /\ settings'.confidenceThreshold = settings.confidenceThreshold
           /\ DisconnectDone =>
                  /\ ~tokens' /\ ~garminTokens'
                  /\ ~settings'.garminConnected]_vars

\* What disconnect does hold to under every interleaving: the history, the
\* ratings and the alarms are kept, the tokens are gone, garminConnected is
\* false, and the other settings are written back as disconnect read them.
DisconnectWritesWhatItRead ==
    [][DisconnectStep =>
           /\ sessions' = sessions
           /\ ratings' = ratings
           /\ wakeWindows' = wakeWindows
           /\ DisconnectDone =>
                  /\ ~tokens' /\ ~garminTokens'
                  /\ ~settings'.garminConnected
                  /\ settings'.confidenceThreshold = dsnap.confidenceThreshold]_vars

(***************************************************************************)
(* The search of findOptimalWakeTime, on histories whose candidates tie    *)
(* and on histories where a later candidate is the best.                   *)
(***************************************************************************)
\* Nights of 90-minute and of 120-minute cycles, regular nights, the mixed
\* nights of History, and nights with one block of light sleep.
SearchedHistories ==
    {RegularHistory(MaxNights), History(MIN_DATA_DAYS),
     CycleHistory(MIN_DATA_DAYS, 90, 2), CycleHistory(MIN_DATA_DAYS, 120, 2),
     LightBlockHistory(MIN_DATA_DAYS, 180)}

\* A 45-minute window, and an explicit earliest time 58 minutes before 07:00.
Window45 == WakeWindow(45, <<7, 0>>, 45, FALSE, <<0, 0>>)
WindowFrom0602 == WakeWindow(4, <<7, 0>>, 30, TRUE, <<6, 2>>)

SearchRequests ==
    {<<Window30, At(Today, 23, 0)>>,
     <<Window30, At(Today, 23, 30)>>,
     <<Window45, At(Today, 23, 0)>>,
     <<Window60, At(Today, 23, 0)>>,
     <<Window60, At(Today, 22, 15)>>,
     <<WindowFrom0633, At(Today + 1, 0, 30)>>,
     <<WindowFrom0602, At(Today, 23, 30)>>,
     <<WindowFrom0700, At(Today, 23, 0)>>}

InitSearch ==
    /\ InitClock /\ InitCalls /\ InitPredict /\ InitAlarm /\ InitFeedback /\ InitGarmin /\ InitScreen
    /\ sessions \in SearchedHistories
    /\ ratings \in StoredFeedback
    /\ settings = DEFAULT_SETTINGS
    /\ InitAnalysis

NextSearch ==
    /\ \E q \in SearchRequests : GeneratePrediction(q[1], q[2])
    /\ UNCHANGED <<returned, feedbackVars, garminVars, screenVars>>

SpecSearch == InitSearch /\ [][NextSearch]_vars

\* The candidates of the last request: earliestWake, earliestWake + 5, ... up
\* to hardWakeTime.
SearchEarliest == EarliestWake(wakeWindow, estimatedBedtime)
SearchLatest == parseWakeTime(wakeWindow.hardWakeTime, estimatedBedtime)
SearchCandidates ==
    {SearchEarliest + 5 * k : k \in 0..((SearchLatest - SearchEarliest) \div 5)}

\* The stated score of a candidate as a fraction: stage weight times
\* probability plus (windowDuration - offset) / windowDuration * 10.
StatedScore(candidate) ==
    LET likely == getMostLikelyStage(candidate - estimatedBedtime,
                                     AnalyzePatternsOf(getSleepSessions(sessions)))
        weight == IF likely.stage = "light" THEN 100
                  ELSE IF likely.stage = "rem" THEN 70
                  ELSE IF likely.stage = "awake" THEN 60
                  ELSE 20
        duration == SearchLatest - SearchEarliest
    IN  <<weight * likely.probability[1] * duration
              + 10 * (SearchLatest - candidate) * likely.probability[2],
          likely.probability[2] * duration>>

ScoreBelow(a, b) == RatLess(StatedScore(a), StatedScore(b))

\* A prediction was made from a pattern for a window that has a duration.
Searched ==
    /\ prediction # NoPrediction
    /\ AnalyzePatternsOf(getSleepSessions(sessions)).dataPoints # -1
    /\ SearchLatest > SearchEarliest

\* C20: the predicted wake time is a candidate between earliestWake and
\* hardWakeTime in 5-minute steps, no candidate has a higher score, and every
\* earlier candidate has a lower score.
C20_MaximumScoreEarliest ==
    Searched =>
        /\ prediction.predictedWakeTime \in SearchCandidates
        /\ \A c \in SearchCandidates :
               /\ ~ScoreBelow(prediction.predictedWakeTime, c)
               /\ c < prediction.predictedWakeTime
                      => ScoreBelow(c, prediction.predictedWakeTime)

\* A later candidate has the same score as the one returned.
C20_Witness ==
    /\ Searched
    /\ \E c \in SearchCandidates :
           /\ c > prediction.predictedWakeTime
           /\ ~ScoreBelow(c, prediction.predictedWakeTime)
           /\ ~ScoreBelow(prediction.predictedWakeTime, c)

\* The best candidate is neither the first nor the last of the scan.
LaterCandidateWins ==
    /\ Searched
    /\ prediction.predictedWakeTime > SearchEarliest
    /\ prediction.predictedWakeTime < SearchLatest

(***************************************************************************)
(* The stage estimator asked for one offset from the sleep start, on the   *)
(* pattern of a stored history.                                            *)
(***************************************************************************)
\* The offsets asked for lie within MaxOffset minutes of the sleep start, on
\* either side: a candidate before the bedtime has a negative offset.
MaxOffset == 240

InitStage ==
    /\ InitClock /\ InitCalls /\ InitPredict /\ InitAlarm /\ InitFeedback /\ InitGarmin
    /\ sessions \in SearchedHistories
    /\ ratings = <<>>
    /\ settings = DEFAULT_SETTINGS
    /\ InitAnalysis
    /\ minutesFromSleepStart \in (-MaxOffset)..MaxOffset
    /\ estimate = NoEstimate
    /\ consistencyResult = NoScore
    /\ InitHome

\* getMostLikelyStage(minutesFromSleepStart, pattern) on the pattern of the
\* stored sessions.
GetMostLikelyStage ==
    /\ AnalyzePatternsOf(getSleepSessions(sessions)).dataPoints # -1
    /\ estimate' = getMostLikelyStage(minutesFromSleepStart,
                                    AnalyzePatternsOf(getSleepSessions(sessions)))
    /\ UNCHANGED <<minutesFromSleepStart, consistencyResult, homeVars>>

NextStage ==
    GetMostLikelyStage
        /\ UNCHANGED <<now, ticks, storeVars, callVars, histVars, analysisVars, predictVars,
                       alarmVars, returned, feedbackVars, garminVars>>

SpecStage == InitStage /\ [][NextStage]_vars

\* The pattern the estimator was given, and its windows that hold the offset.
StagePattern == AnalyzePatternsOf(getSleepSessions(sessions))
HoldingWindows ==
    {i \in 1..Len(StagePattern.typicalLightSleepWindows) :
        /\ minutesFromSleepStart >= StagePattern.typicalLightSleepWindows[i].startMinutesFromSleep
        /\ minutesFromSleepStart <= StagePattern.typicalLightSleepWindows[i].endMinutesFromSleep}

\* The stated answer for a position r in a cycle of length c.
StatedStage(r, c) ==
    IF 5 * r < c THEN [stage |-> "light", probability |-> <<6, 10>>]
    ELSE IF 2 * r < c THEN [stage |-> "deep", probability |-> <<5, 10>>]
    ELSE IF 4 * r < 3 * c THEN [stage |-> "light", probability |-> <<5, 10>>]
    ELSE [stage |-> "rem", probability |-> <<5, 10>>]

\* The remainder of the offset by the cycle length with the sign of the offset.
SignedRemainder ==
    IF minutesFromSleepStart >= 0
    THEN minutesFromSleepStart % StagePattern.averageCycleLength
    ELSE -((-minutesFromSleepStart) % StagePattern.averageCycleLength)

BonusSteps ==
    {<<3, 5>>, <<5, 3>>, <<1, 3>>, <<3, 1>>, <<1, 5>>, <<5, 1>>, <<4, 4>>, <<2, 2>>, <<3, 3>>}

BonusLogs ==
    UNION {{StepLog(n, at, f[1], f[2], "all", 0) :
                at \in {0, 1, n \div 2, n - 1} \cap (0..n), f \in BonusSteps} :
           n \in {0, 1, 2, 13, 14, 15, 16}}

BonusRequests ==
    {<<Window30, At(Today, 23, 0)>>,
     <<Window30, At(Today, 21, 30)>>,
     <<Window60, At(Today, 23, 0)>>}

InitBonus ==
    /\ InitClock /\ InitCalls /\ InitPredict /\ InitAlarm /\ InitFeedback /\ InitGarmin /\ InitScreen
    /\ sessions \in {History(MIN_DATA_DAYS), RegularHistory(MaxNights)}
    /\ ratings \in BonusLogs
    /\ settings = DEFAULT_SETTINGS
    /\ InitAnalysis

NextBonus ==
    /\ \E q \in BonusRequests : GeneratePrediction(q[1], q[2])
    /\ UNCHANGED <<returned, feedbackVars, garminVars, screenVars>>

SpecBonus == InitBonus /\ [][NextBonus]_vars

\* The indices of the last 14 stored ratings (of all, when there are fewer).
LastRatings == {i \in 1..Len(ratings) : i > Len(ratings) - 14}

\* The stated bonus: +10 for a mean feeling of the last 14 ratings of 4 or
\* more, -10 for 2 or less, 0 otherwise and without ratings.
StatedBonus ==
    IF LastRatings = {} THEN 0
    ELSE IF FeelingOver(ratings, LastRatings) >= 4 * Cardinality(LastRatings) THEN 10
    ELSE IF FeelingOver(ratings, LastRatings) <= 2 * Cardinality(LastRatings) THEN -10
    ELSE 0

\* The pattern of the last request.
BonusPattern == AnalyzePatternsOf(getSleepSessions(sessions))

\* C22: the confidence is the confidence before the feedback step plus the
\* stated bonus of the last 14 ratings, rounded and clamped to 0..95, and the
\* prediction is the one the last 14 ratings alone would give.
C22_FeedbackBonus ==
    prediction # NoPrediction /\ BonusPattern.dataPoints # -1 =>
        LET pat == BonusPattern
            base == findOptimalWakeTime(EarliestWake(wakeWindow, estimatedBedtime),
                                        parseWakeTime(wakeWindow.hardWakeTime,
                                                      estimatedBedtime),
                                        estimatedBedtime, pat).baseConfidence
            before == ConfidenceTwentieths(base, pat, <<>>, estimatedBedtime)
        IN  /\ pat.dataPoints >= MIN_DATA_DAYS
            /\ base \in 0..MAX_CONFIDENCE
            /\ prediction.confidence =
                   Max(0, Min(MAX_CONFIDENCE, Round(before + 20 * StatedBonus, 20)))
            /\ prediction =
                   GeneratePredictionOf(pat,
                                        SubSeq(ratings,
                                               Len(ratings) - Cardinality(LastRatings) + 1,
                                               Len(ratings)),
                                        wakeWindow, estimatedBedtime)

\* More than 14 ratings whose mean is 4 while the mean of the last 14 is
\* below 4, and a confidence that is not clamped.
C22_Witness ==
    /\ prediction # NoPrediction
    /\ Len(ratings) > 14
    /\ SumFeeling(ratings) >= 4 * Len(ratings)
    /\ StatedBonus = 0
    /\ prediction.confidence \in 1..(MAX_CONFIDENCE - 1)

(***************************************************************************)
(* The bedtime penalty of adjustConfidence, for bedtimes around the        *)
(* thresholds of the deviation from 11pm.                                  *)
(***************************************************************************)
\* Bedtimes of this evening and of the small hours after it, as <<day, hours, minutes>>.
PenaltyBedtimes ==
    {<<0, 20, 59>>, <<0, 21, 0>>, <<0, 21, 2>>, <<0, 21, 57>>, <<0, 21, 58>>, <<0, 21, 59>>,
     <<0, 22, 0>>, <<0, 23, 0>>, <<0, 23, 59>>,
     <<1, 0, 0>>, <<1, 0, 1>>, <<1, 0, 3>>, <<1, 1, 0>>, <<1, 3, 59>>, <<1, 4, 0>>}

PenaltyRequests ==
    {<<w, At(Today + b[1], b[2], b[3])>> : w \in {Window30, Window60}, b \in PenaltyBedtimes}

InitPenalty ==
    /\ InitClock /\ InitCalls /\ InitPredict /\ InitAlarm /\ InitFeedback /\ InitGarmin /\ InitScreen
    /\ sessions \in {History(MIN_DATA_DAYS), RegularHistory(MaxNights)}
    /\ ratings \in StoredFeedback
    /\ settings = DEFAULT_SETTINGS
    /\ InitAnalysis

NextPenalty ==
    /\ \E q \in PenaltyRequests : GeneratePrediction(q[1], q[2])
    /\ UNCHANGED <<returned, feedbackVars, garminVars, screenVars>>

SpecPenalty == InitPenalty /\ [][NextPenalty]_vars

\* Tonight's bedtime minute of day, the hours before 04:00 shifted by 1440,
\* and its distance from 23:00.
TonightBedtimeMinute ==
    LET m == estimatedBedtime % MinutesPerDay
    IN  IF m < 4 * 60 THEN m + 1440 ELSE m
Deviation ==
    IF TonightBedtimeMinute >= 1380 THEN TonightBedtimeMinute - 1380
    ELSE 1380 - TonightBedtimeMinute

\* The stated penalty in twentieths of a point: min(30, (deviation - 60) / 2)
\* for a deviation above 60, nothing otherwise.
StatedPenalty ==
    IF Deviation > 60
    THEN (IF Deviation - 60 >= 60 THEN 600 ELSE 10 * (Deviation - 60))
    ELSE 0

\* C23: the confidence is the confidence the same request would have at an
\* 11pm bedtime deviation (no penalty) less the stated penalty, rounded and
\* clamped to 0..95.
C23_BedtimePenalty ==
    prediction # NoPrediction /\ BonusPattern.dataPoints # -1 =>
        LET pat == BonusPattern
            base == findOptimalWakeTime(EarliestWake(wakeWindow, estimatedBedtime),
                                        parseWakeTime(wakeWindow.hardWakeTime,
                                                      estimatedBedtime),
                                        estimatedBedtime, pat).baseConfidence
            unpenalised == ConfidenceTwentieths(base, pat, ratings, At(Today, 23, 0))
        IN  /\ pat.dataPoints >= MIN_DATA_DAYS
            /\ base \in 0..MAX_CONFIDENCE
            /\ prediction.confidence =
                   Max(0, Min(MAX_CONFIDENCE, Round(unpenalised - StatedPenalty, 20)))

\* A bedtime after midnight whose deviation is above 60 and whose penalty is
\* below the limit of 30.
C23_Witness ==
    /\ prediction # NoPrediction
    /\ BonusPattern.dataPoints # -1
    /\ estimatedBedtime % MinutesPerDay < 4 * 60
    /\ StatedPenalty \in 1..599
    /\ prediction.confidence \in 1..(MAX_CONFIDENCE - 1)

(***************************************************************************)
(* parseWakeTime, for bedtimes on either side of 18:00 and of the hard     *)
(* wake time.                                                              *)
(***************************************************************************)
\* Alarms for 05:30, 07:00 and 19:00.
HardWakeTimes == {<<5, 30>>, <<7, 0>>, <<19, 0>>}
ParsedWindows == {WakeWindow(100 + h[1], h, 30, FALSE, <<0, 0>>) : h \in HardWakeTimes}

\* Bedtimes as <<day, hours, minutes>>.
ParsedBedtimes ==
    {<<0, 12, 0>>, <<0, 17, 59>>, <<0, 18, 0>>, <<0, 18, 59>>, <<0, 19, 0>>, <<0, 23, 0>>,
     <<0, 23, 59>>, <<1, 0, 0>>, <<1, 0, 30>>, <<1, 5, 29>>, <<1, 5, 30>>, <<1, 6, 59>>,
     <<1, 7, 0>>, <<1, 7, 1>>}

ParseRequests ==
    {<<w, At(Today + b[1], b[2], b[3])>> : w \in ParsedWindows, b \in ParsedBedtimes}

InitParse ==
    /\ InitClock /\ InitCalls /\ InitPredict /\ InitAlarm /\ InitFeedback /\ InitGarmin /\ InitScreen
    /\ sessions \in {<<>>, History(MIN_DATA_DAYS)}
    /\ ratings \in StoredFeedback
    /\ settings = DEFAULT_SETTINGS
    /\ InitAnalysis

NextParse ==
    /\ \E q \in ParseRequests : GeneratePrediction(q[1], q[2])
    /\ UNCHANGED <<returned, feedbackVars, garminVars, screenVars>>

SpecParse == InitParse /\ [][NextParse]_vars

\* The bedtime's calendar day, hour and time of day; the hard wake time of day.
BedtimeDay == estimatedBedtime \div MinutesPerDay
BedtimeOfDay == estimatedBedtime % MinutesPerDay
HardWakeOfDay == wakeWindow.hardWakeTime[1] * 60 + wakeWindow.hardWakeTime[2]

\* C24: the resolved hard wake time has the alarm's time of day, on the day
\* after the bedtime's day exactly when the bedtime's hour is 18 or more and
\* on the bedtime's day otherwise; it is later than the bedtime whenever the
\* bedtime's hour is 18 or more or its time of day is before the alarm's.
C24_HardWakeDay ==
    prediction # NoPrediction =>
        /\ prediction.fallbackTime % MinutesPerDay = HardWakeOfDay
        /\ (prediction.fallbackTime \div MinutesPerDay = BedtimeDay + 1)
               <=> (BedtimeOfDay >= 18 * 60)
        /\ (prediction.fallbackTime \div MinutesPerDay = BedtimeDay)
               <=> (BedtimeOfDay < 18 * 60)
        /\ (BedtimeOfDay >= 18 * 60 \/ BedtimeOfDay < HardWakeOfDay)
               => prediction.fallbackTime > estimatedBedtime

\* A bedtime after midnight, before the alarm's time: the same calendar day.
C24_Witness ==
    /\ prediction # NoPrediction
    /\ BedtimeOfDay < HardWakeOfDay
    /\ BedtimeOfDay < 4 * 60
    /\ prediction.fallbackTime \div MinutesPerDay = BedtimeDay
    /\ prediction.fallbackTime > estimatedBedtime

\* A bedtime in the daytime after the alarm's time: the hard wake time is past.
HardWakeBeforeBedtime ==
    /\ prediction # NoPrediction
    /\ prediction.fallbackTime <= estimatedBedtime

(***************************************************************************)
(* The reasoning text of a prediction, for confidences on both sides of    *)
(* 30 and 70 and for chosen times at and before the hard wake time.        *)
(***************************************************************************)
ReasonRequests ==
    {<<Window30, At(Today, 23, 0)>>,
     <<Window30, At(Today, 23, 30)>>,
     <<Window60, At(Today, 23, 0)>>,
     <<Window60, At(Today, 20, 30)>>,
     <<Window30, At(Today + 1, 2, 0)>>,
     <<WindowFrom0700, At(Today, 23, 0)>>,
     <<WindowFrom0700, At(Today, 21, 0)>>}

InitReason ==
    /\ InitClock /\ InitCalls /\ InitPredict /\ InitAlarm /\ InitFeedback /\ InitGarmin /\ InitScreen
    /\ sessions \in SearchedHistories
    /\ ratings \in StoredFeedback
    /\ settings = DEFAULT_SETTINGS
    /\ InitAnalysis

NextReason ==
    /\ \E q \in ReasonRequests : GeneratePrediction(q[1], q[2])
    /\ UNCHANGED <<returned, feedbackVars, garminVars, screenVars>>

SpecReason == InitReason /\ [][NextReason]_vars

\* C25: for a prediction made from a pattern, a confidence below 30 gives the
\* limited-data text, also at the hard deadline; otherwise a chosen time
\* equal to the hard deadline gives the deadline-aligns text; otherwise the
\* text is the 'Based on N nights' form for a confidence of 70 or more and
\* the moderate-confidence form below 70.
C25_ReasoningRules ==
    prediction # NoPrediction /\ BonusPattern.dataPoints # -1 =>
        /\ prediction.confidence < 30 => prediction.reasoning = "Limited data"
        /\ prediction.confidence >= 30
               /\ prediction.predictedWakeTime = prediction.fallbackTime
               => prediction.reasoning = "Your hard wake time aligns well"
        /\ prediction.confidence >= 70
               /\ prediction.predictedWakeTime # prediction.fallbackTime
               => prediction.reasoning = "Based on nights of data"
        /\ prediction.confidence \in 30..69
               /\ prediction.predictedWakeTime # prediction.fallbackTime
               => prediction.reasoning = "Confidence is moderate"

\* A confidence below 30 at the hard deadline.
C25_Witness ==
    /\ prediction # NoPrediction
    /\ BonusPattern.dataPoints # -1
    /\ prediction.confidence < 30
    /\ prediction.predictedWakeTime = prediction.fallbackTime
    /\ prediction.reasoning = "Limited data"

ReasonAligns == prediction # NoPrediction /\ prediction.reasoning = "Your hard wake time aligns well"
ReasonBased == prediction # NoPrediction /\ prediction.reasoning = "Based on nights of data"
ReasonModerate == prediction # NoPrediction /\ prediction.reasoning = "Confidence is moderate"
ReasonLimitedEarly ==
    /\ prediction # NoPrediction
    /\ prediction.reasoning = "Limited data"
    /\ prediction.predictedWakeTime # prediction.fallbackTime

(***************************************************************************)
(* The cycle length of histories whose nights have different cycles        *)
(***************************************************************************)
\* n nights of one light -> deep -> light cycle each: the first k nights with
\* a cycle of a minutes, the others with a cycle of b minutes.
MixedCycleHistory(n, k, a, b) ==
    [i \in 1..n |-> Session(Today - n + i - 1, 50 + i, 23, 0, 480,
                            CycleLayout(IF i <= k THEN a ELSE b, 1, 20))]

MixedHistories ==
    {MixedCycleHistory(n, k, a, b) : n \in MIN_DATA_DAYS..MaxSynthetic, k \in {3, 4},
                                     a \in {60, 75}, b \in {90, 120}}

InitCycle ==
    /\ InitClock /\ InitCalls /\ InitPredict /\ InitAlarm /\ InitFeedback /\ InitGarmin /\ InitScreen
    /\ sessions \in MixedHistories
    /\ ratings = <<>>
    /\ settings = DEFAULT_SETTINGS
    /\ InitAnalysis

NextCycle ==
    SyntheticStep /\ UNCHANGED <<now, ticks, storeVars, callVars, histVars, predictVars,
                                 alarmVars, returned, feedbackVars, garminVars, screenVars>>

SpecCycle == InitCycle /\ [][NextCycle]_vars

\* The candidates of the stored history that lie in [60, 120], ascending.
Surviving ==
    SortAscending(SelectSeq(CycleLengths(getSleepSessions(sessions)),
                            LAMBDA c : c >= 60 /\ c <= 120))

\* The median of an ascending list, rounded to the nearest minute.
RoundedMedian(sorted) ==
    IF Len(sorted) % 2 = 1 THEN sorted[(Len(sorted) + 1) \div 2]
    ELSE Round(sorted[Len(sorted) \div 2] + sorted[Len(sorted) \div 2 + 1], 2)

\* C26: when a candidate survives the [60, 120] filter, the averageCycleLength
\* of a returned pattern is the median of the surviving candidates of all
\* sessions, rounded to the nearest minute; for an even number of candidates
\* that is the middle of the two middle elements.
C26_MedianCycleLength ==
    \A r \in Requesters :
        pattern[r] # NoPattern /\ Len(Surviving) > 0 =>
            pattern[r].averageCycleLength = RoundedMedian(Surviving)

\* For an odd number of candidates the pattern has their median.
OddCountMedian ==
    \A r \in Requesters :
        pattern[r] # NoPattern /\ Len(Surviving) % 2 = 1 =>
            pattern[r].averageCycleLength = RoundedMedian(Surviving)

\* For an even number the pattern has the upper of the two middle elements.
EvenCountUpperMiddle ==
    \A r \in Requesters :
        pattern[r] # NoPattern /\ Len(Surviving) > 0 /\ Len(Surviving) % 2 = 0 =>
            pattern[r].averageCycleLength = Surviving[Len(Surviving) \div 2 + 1]

EvenCountReturned ==
    \E r \in Requesters :
        /\ pattern[r] # NoPattern
        /\ Len(Surviving) = 8
        /\ Surviving[4] = 60 /\ Surviving[5] = 120
        /\ pattern[r].averageCycleLength = 120

(***************************************************************************)
(* The consistency score of histories of 0 to MaxNights nights             *)
(***************************************************************************)
\* n nights: the even ones from 23:00 for 480 minutes, the odd ones `gap`
\* minutes later to bed and `stretch` minutes shorter.
VariedHistory(n, gap, stretch) ==
    [i \in 1..n |->
        IF i % 2 = 0 THEN Session(Today - n + i - 1, 90 + i, 23, 0, 480, LayoutCycle90)
        ELSE Session(Today - n + i - 1, 90 + i, ((23 * 60 + gap) \div 60) % 24,
                     gap % 60, 480 - stretch, LayoutCycle90)]

\* Differences that Math.sqrt is computed for at every length; ScoredHistories
\* adds a difference of more than two acceptable deviations on three nights.
Gaps == {0, 30, 90}
Stretches == {0, 60}

ScoredHistories ==
    {VariedHistory(n, gap, stretch) : n \in 0..MaxNights, gap \in Gaps, stretch \in Stretches}
        \cup {VariedHistory(n, 290, stretch) : n \in 2..3, stretch \in {0, 290}}

InitConsistency ==
    /\ InitClock /\ InitCalls /\ InitPredict /\ InitAlarm /\ InitFeedback /\ InitGarmin /\ InitScreen
    /\ sessions \in ScoredHistories
    /\ ratings = <<>>
    /\ settings = DEFAULT_SETTINGS
    /\ InitAnalysis

\* calculateConsistency on the stored sessions.
CalculateConsistency ==
    /\ consistencyResult' = calculateConsistency(getSleepSessions(sessions))
    /\ UNCHANGED <<minutesFromSleepStart, estimate, homeVars>>

NextConsistency ==
    CalculateConsistency
        /\ UNCHANGED <<now, ticks, storeVars, callVars, histVars, analysisVars, predictVars,
                       alarmVars, returned, feedbackVars, garminVars>>

SpecConsistency == InitConsistency /\ [][NextConsistency]_vars

\* The nights scored, and what is measured of each.
Scored == getSleepSessions(sessions)
DurationsScored == [i \in 1..Len(Scored) |-> Scored[i].totalDurationMinutes]
BedtimesScored == [i \in 1..Len(Scored) |-> getMinuteOfDay(Scored[i].sleepStart)]
WaketimesScored == [i \in 1..Len(Scored) |-> getMinuteOfDay(Scored[i].sleepEnd)]

\* n * SqrtScale times the standard deviation, from the squared deviations of
\* the values from their mean (each times n).
ScaledDeviation(values) ==
    LET n == Len(values)
        total == SumSeq(values)
        squares == SumSeq([i \in 1..n |-> (n * values[i] - total) * (n * values[i] - total)])
    IN  ISqrt((squares \div n) * SqrtScale * SqrtScale)

\* max(0, 100 - (sd / 60) * 50), times 60 * n * SqrtScale.
SubScore(values) ==
    LET whole == 60 * Len(values) * SqrtScale
    IN  IF 50 * ScaledDeviation(values) >= 100 * whole THEN 0
        ELSE 100 * whole - 50 * ScaledDeviation(values)

IdenticalNights ==
    \A i, j \in 1..Len(Scored) :
        /\ DurationsScored[i] = DurationsScored[j]
        /\ BedtimesScored[i] = BedtimesScored[j]
        /\ WaketimesScored[i] = WaketimesScored[j]

\* C27: the consistency score is an integer in 0..100; it is 0 with fewer
\* than 3 sessions, otherwise the rounded unweighted mean of the sub-scores
\* max(0, 100 - (sd / 60) * 50) of duration, bedtime and wake time, and 100
\* when the sessions are identical in all three.
C27_ConsistencyScore ==
    consistencyResult # NoScore =>
        /\ consistencyResult \in 0..100
        /\ Len(Scored) < 3 => consistencyResult = 0
        /\ Len(Scored) >= 3 =>
              consistencyResult =
                  Round(SubScore(DurationsScored) + SubScore(BedtimesScored)
                            + SubScore(WaketimesScored),
                        3 * 60 * Len(Scored) * SqrtScale)
        /\ Len(Scored) >= 3 /\ IdenticalNights => consistencyResult = 100

\* Two unlike nights score 0.
C27_Witness ==
    /\ consistencyResult = 0
    /\ Len(Scored) = 2
    /\ ~IdenticalNights

ScoredBetween == Len(Scored) >= 3 /\ consistencyResult \in 1..99
ScoredIdentical == Len(Scored) >= 3 /\ IdenticalNights /\ consistencyResult = 100
ScoredOneClamped ==
    /\ Len(Scored) >= 3
    /\ SubScore(BedtimesScored) = 0
    /\ consistencyResult > 0

(***************************************************************************)
(* Wake windows that hold candidates estimated in deep sleep               *)
(***************************************************************************)
\* The regular nights, of which the first has one more light stage 300 minutes
\* from sleep start and the second a deep stage 305 minutes from it: the only
\* two stages of the history that start in [300, 315).
SparseLightLayout(i) ==
    IF i = 1 THEN SubSeq(LayoutCycle90, 1, 6) \o << <<"light", 300>>, <<"light", 450>> >>
    ELSE IF i = 2 THEN SubSeq(LayoutCycle90, 1, 6) \o << <<"deep", 305>>, <<"light", 450>> >>
    ELSE LayoutCycle90

SparseLightHistory(n) ==
    [i \in 1..n |-> Session(Today - n + i - 1, 30 + i, 23, 0, 480, SparseLightLayout(i))]

DeepHistories ==
    {<<>>, History(MIN_DATA_DAYS), RegularHistory(MIN_DATA_DAYS), RegularHistory(MaxNights),
     SparseLightHistory(MIN_DATA_DAYS), SparseLightHistory(MaxNights)}

Window15 == WakeWindow(15, <<7, 0>>, 15, FALSE, <<0, 0>>)
Window25 == WakeWindow(25, <<7, 0>>, 25, FALSE, <<0, 0>>)

\* Bedtimes 395, 380, 315 and 480 minutes before 07:00.
DeepRequests ==
    {<<Window15, At(Today + 1, 0, 25)>>,
     <<WakeWindow(5, <<7, 0>>, 30, TRUE, <<7, 0>>), At(Today + 1, 0, 40)>>,
     <<Window30, At(Today + 1, 0, 25)>>,
     <<Window25, At(Today + 1, 1, 45)>>,
     <<Window30, At(Today, 23, 0)>>,
     <<Window60, At(Today, 23, 0)>>}

InitDeep ==
    /\ InitClock /\ InitCalls /\ InitPredict /\ InitAlarm /\ InitFeedback /\ InitGarmin /\ InitScreen
    /\ sessions \in DeepHistories
    /\ ratings \in StoredFeedback
    /\ settings = DEFAULT_SETTINGS
    /\ InitAnalysis

NextDeep ==
    /\ \E q \in DeepRequests : GeneratePrediction(q[1], q[2])
    /\ UNCHANGED <<returned, feedbackVars, garminVars, screenVars>>

SpecDeep == InitDeep /\ [][NextDeep]_vars

\* The candidates of the last request that the pattern estimates in deep sleep.
DeepCandidates ==
    {c \in SearchCandidates :
        getMostLikelyStage(c - estimatedBedtime, BonusPattern).stage = "deep"}

\* C28: a prediction has predictedStage 'deep' only if every scanned 5-minute
\* candidate of the wake window is estimated in deep sleep; when a candidate
\* is estimated light or rem the chosen candidate is not deep.
C28_DeepOnlyWhenAllDeep ==
    prediction # NoPrediction /\ prediction.predictedStage = "deep" =>
        /\ BonusPattern.dataPoints # -1
        /\ SearchCandidates # {}
        /\ DeepCandidates = SearchCandidates

\* A window of four candidates, all estimated deep, and 'deep' predicted.
C28_Witness ==
    /\ prediction # NoPrediction
    /\ prediction.predictedStage = "deep"
    /\ Cardinality(SearchCandidates) = 4
    /\ DeepCandidates = SearchCandidates

\* Deep candidates come first in the window, and a light candidate of
\* probability 1/3 is chosen.
DeepPassedOver ==
    /\ prediction # NoPrediction
    /\ BonusPattern.dataPoints # -1
    /\ SearchEarliest \in DeepCandidates
    /\ prediction.predictedStage = "light"
    /\ getMostLikelyStage(prediction.predictedWakeTime - estimatedBedtime, BonusPattern)
           = [stage |-> "light", probability |-> <<1, 3>>]

\* An empty window whose one candidate is estimated deep: 'light' predicted.
EmptyWindowDeep ==
    /\ prediction # NoPrediction
    /\ BonusPattern.dataPoints # -1
    /\ SearchEarliest = SearchLatest
    /\ DeepCandidates = SearchCandidates
    /\ prediction.predictedStage = "light"

(***************************************************************************)
(* The cycle length of histories with and without surviving candidates     *)
(***************************************************************************)
\* Nights of three stages, and nights whose first stage is deep.
LayoutShort == << <<"light", 0>>, <<"deep", 20>>, <<"light", 75>> >>
LayoutDeepFirst == << <<"deep", 0>>, <<"light", 20>>, <<"deep", 40>>, <<"light", 95>>,
                      <<"deep", 120>>, <<"light", 170>> >>

LayoutHistory(n, layout) ==
    [i \in 1..n |-> Session(Today - n + i - 1, 50 + i, 23, 0, 480, layout)]

LengthHistories ==
    UNION {{CycleHistory(n, 59, 1), CycleHistory(n, 60, 1), CycleHistory(n, 120, 1),
            CycleHistory(n, 121, 1), MixedCycleHistory(n, 3, 60, 120),
            LayoutHistory(n, LayoutShort), LayoutHistory(n, LayoutDeepFirst),
            LayoutHistory(n, <<>>)} : n \in MIN_DATA_DAYS..MaxSynthetic}

InitLength ==
    /\ InitClock /\ InitCalls /\ InitPredict /\ InitAlarm /\ InitFeedback /\ InitGarmin /\ InitScreen
    /\ sessions \in LengthHistories
    /\ ratings = <<>>
    /\ settings = DEFAULT_SETTINGS
    /\ InitAnalysis

NextLength ==
    SyntheticStep /\ UNCHANGED <<now, ticks, storeVars, callVars, histVars, predictVars,
                                 alarmVars, returned, feedbackVars, garminVars, screenVars>>

SpecLength == InitLength /\ [][NextLength]_vars

\* Every stored night has fewer than 4 stages.
AllShortNights ==
    \A i \in 1..Len(sessions) : Len(sessions[i].stages) < 4

\* The first light or deep stage of every stored night is deep.
AllDeepFirst ==
    \A i \in 1..Len(sessions) :
        \E k \in 1..Len(sessions[i].stages) :
            /\ sessions[i].stages[k].type = "deep"
            /\ \A j \in 1..(k - 1) : sessions[i].stages[j].type \notin {"light", "deep"}

\* C29: the averageCycleLength of a returned pattern is an integer in 60..120;
\* it is 90 when no candidate survives, as when every session has fewer than
\* 4 stages or starts its light/deep sequence with a deep stage.
C29_CycleLengthRange ==
    \A r \in Requesters :
        pattern[r] # NoPattern =>
            /\ pattern[r].averageCycleLength \in 60..120
            /\ Len(Surviving) = 0 => pattern[r].averageCycleLength = AVERAGE_CYCLE_LENGTH
            /\ AllShortNights => pattern[r].averageCycleLength = AVERAGE_CYCLE_LENGTH
            /\ AllDeepFirst => pattern[r].averageCycleLength = AVERAGE_CYCLE_LENGTH

\* A pattern returned for nights that all start with a deep stage.
C29_Witness ==
    \E r \in Requesters :
        /\ pattern[r] # NoPattern
        /\ AllDeepFirst
        /\ \A i \in 1..Len(sessions) : Len(sessions[i].stages) >= 4
        /\ pattern[r].averageCycleLength = AVERAGE_CYCLE_LENGTH

ShortNightsReturned ==
    \E r \in Requesters :
        /\ pattern[r] # NoPattern
        /\ AllShortNights
        /\ \E i \in 1..Len(sessions) : Len(sessions[i].stages) = 3
OutsideReturned ==
    \E r \in Requesters :
        /\ pattern[r] # NoPattern
        /\ ~AllShortNights /\ ~AllDeepFirst
        /\ Len(Surviving) = 0
EndsReturned ==
    /\ \E r \in Requesters : pattern[r] # NoPattern /\ pattern[r].averageCycleLength = 60
    /\ \E r \in Requesters : pattern[r] # NoPattern /\ Len(Surviving) = 7

(***************************************************************************)
(* HomeScreen: loadData and handleSetAlarm                                 *)
(***************************************************************************)
\* The 30-minute window saved again with an earlier hard wake time.
Window30Moved == WakeWindow(30, <<6, 30>>, 30, FALSE, <<0, 0>>)

\* The versions of the window AlarmSetupScreen saves; each is enabled and
\* repeats today.
HomeWindows == {Window30, Window30Moved}

\* StorageService.saveWakeWindow: replace the window of that id, or push.
SaveWakeWindowList(list, window) ==
    IF \E i \in 1..Len(list) : list[i].id = window.id
    THEN [i \in 1..Len(list) |-> IF list[i].id = window.id THEN window ELSE list[i]]
    ELSE Append(list, window)

\* AlarmSetupScreen.handleSave
SaveWakeWindow(window) ==
    /\ wakeWindows' = SaveWakeWindowList(wakeWindows, window)
    /\ UNCHANGED <<tokens, garminTokens, dpc, dsnap, upc, uarg, usnap, storeVars,
                   predictVars, alarmVars, homeVars>>

\* AlarmSetupScreen.handleDelete -> StorageService.deleteWakeWindow
DeleteWakeWindow(id) ==
    /\ \E i \in 1..Len(wakeWindows) : wakeWindows[i].id = id
    /\ wakeWindows' = SelectSeq(wakeWindows, LAMBDA w : w.id # id)
    /\ UNCHANGED <<tokens, garminTokens, dpc, dsnap, upc, uarg, usnap, storeVars,
                   predictVars, alarmVars, homeVars>>

\* GarminService.connect, the access tokens obtained (lines 354-357): they are
\* kept and saved, then saveUserSettings({garminConnected: true}).
Connect ==
    /\ ~garminTokens
    /\ dpc = "idle"
    /\ tokens' = TRUE
    /\ garminTokens' = TRUE
    /\ settings' = [getUserSettings(settings) EXCEPT !.garminConnected = TRUE]
    /\ UNCHANGED <<wakeWindows, dpc, dsnap, upc, uarg, usnap, sessions, ratings,
                   predictVars, alarmVars, homeVars>>

\* loadData, lines 101-102: connected = await garminService.initialize();
\* setIsConnected(connected)
LoadDataInitialize(r) ==
    /\ loads[r].at = "idle"
    /\ tokens' = garminTokens
    /\ isConnected' = garminTokens
    /\ loads' = [loads EXCEPT ![r] = [at |-> "initialized", connected |-> garminTokens,
                                      activeWindow |-> NoWindow]]
    /\ UNCHANGED <<garminTokens, wakeWindows, dpc, dsnap, upc, uarg, usnap, storeVars,
                   predictVars, alarmVars, activeAlarm, handed>>

\* loadData, lines 104-107: the first stored window that is enabled today
\* becomes the active alarm; line 109 decides whether a prediction is asked for.
LoadDataWindows(r) ==
    LET activeWindow == IF wakeWindows = <<>> THEN NoWindow ELSE wakeWindows[1]
    IN  /\ loads[r].at = "initialized"
        /\ activeAlarm' = activeWindow
        /\ loads' = [loads EXCEPT ![r] =
                        IF activeWindow # NoWindow /\ loads[r].connected
                        THEN [loads[r] EXCEPT !.at = "predicting",
                                              !.activeWindow = activeWindow]
                        ELSE Idle]
        /\ UNCHANGED <<garminVars, storeVars, predictVars, alarmVars, isConnected, handed>>

\* loadData, lines 110-113: pred = await generatePrediction(activeWindow, 11pm);
\* setPrediction(pred)
LoadDataPrediction(r) ==
    /\ loads[r].at = "predicting"
    /\ GeneratePrediction(loads[r].activeWindow, At(DayOf(now), 23, 0))
    /\ loads' = [loads EXCEPT ![r] = Idle]
    /\ UNCHANGED <<garminVars, isConnected, activeAlarm, handed>>

\* handleSetAlarm, lines 130-134, from the button rendered for
\* prediction && isConnected under an active alarm (lines 215, 241, 266):
\* scheduleAlarm(prediction, activeAlarm) up to its cancelScheduledAlarm.
HandleSetAlarm ==
    /\ activeAlarm # NoWindow
    /\ prediction # NoPrediction
    /\ isConnected
    /\ ScheduleAlarmCancel
    /\ handed' = [wakeWindow |-> activeAlarm, madeFor |-> wakeWindow,
                  loading |-> \E r \in Requesters : loads[r].at # "idle"]
    /\ UNCHANGED <<garminVars, isConnected, activeAlarm, loads>>

InitHomeScreen ==
    /\ InitClock /\ InitCalls /\ InitPredict /\ InitAlarm /\ InitFeedback /\ InitGarmin /\ InitScreen
    /\ sessions = RegularHistory(MIN_DATA_DAYS)
    /\ ratings = <<>>
    /\ settings = DEFAULT_SETTINGS
    /\ InitAnalysis

HomeStep ==
    \/ \E window \in HomeWindows : SaveWakeWindow(window)
    \/ \E window \in HomeWindows : DeleteWakeWindow(window.id)
    \/ Connect
    \/ DisconnectClear /\ UNCHANGED <<predictVars, alarmVars, homeVars>>
    \/ DisconnectRead /\ UNCHANGED <<predictVars, alarmVars, homeVars>>
    \/ DisconnectWrite /\ UNCHANGED <<predictVars, alarmVars, homeVars>>
    \/ \E r \in Requesters : LoadDataInitialize(r)
    \/ \E r \in Requesters : LoadDataWindows(r)
    \/ \E r \in Requesters : LoadDataPrediction(r)
    \/ HandleSetAlarm
    \/ ScheduleAlarmSettings /\ UNCHANGED <<garminVars, homeVars>>
    \/ ScheduleAlarmPrimary /\ UNCHANGED <<garminVars, homeVars>>
    \/ ScheduleAlarmBackup /\ UNCHANGED <<garminVars, homeVars>>

NextHome ==
    /\ HomeStep
    /\ UNCHANGED <<now, ticks, callVars, histVars, analysisVars, returned, feedbackVars,
                   minutesFromSleepStart, estimate, consistencyResult>>

SpecHome == InitHomeScreen /\ [][NextHome]_vars

\* C30: the prediction handleSetAlarm passes to scheduleAlarm was generated
\* from the wake window that is the active alarm it passes with it.
C30_PredictionOfActiveAlarm ==
    handed # NoHand => handed.madeFor = handed.wakeWindow

\* The same of the calls made while no loadData run is under way.
SettledPredictionOfActiveAlarm ==
    handed # NoHand /\ ~handed.loading => handed.madeFor = handed.wakeWindow

\* A prediction handed over with the window it was generated from.
HandedOwnPrediction ==
    handed # NoHand /\ handed.madeFor = handed.wakeWindow

====
